---- MODULE Spec2Model ----
(***************************************************************************)
(* go-jenkins: the client session (jenkins.go) and the node operations     *)
(* that use it.  The client is constructed by NewClient from a list of     *)
(* options; caller goroutines then run operations on it.  The Jenkins      *)
(* server and the network are the environment: they choose the outcome of  *)
(* every request that is sent.                                             *)
(***************************************************************************)
EXTENDS Integers, Sequences, FiniteSets, TLC

VARIABLES
    client,     \* struct Client without Crumbs (httpClient, baseURL, userName, password, apiToken)
    crumbs,     \* Client.Crumbs: Nil or a Crumbs value
    jar,        \* the cookies held by client.httpClient.Jar
    ncOpts,     \* NewClient: the opts argument
    ncIdx,      \* NewClient: index of the next option of the range loop
    ncPc,       \* NewClient: "loop" while the options are applied, "done" once it returned
    ncErr,      \* NewClient: the error it returned
    proc,       \* one record per caller goroutine: the operation it runs and where it is
    lastBuild,  \* history: the latest build of a mutating request (Nil before the first)
    attached,   \* history: the crumbs (by number) attached to a request so far
    fetched,    \* history: the crumb setCrumbs stored last (Nil before the first)
    fetchCount, \* history: number of crumbs setCrumbs stored so far
    opsStarted, \* history: number of operations called so far
    node,       \* the Node value fillInNodeDefaults is called on
    nodeGiven,  \* history: that Node as the caller made it
    fills,      \* history: number of calls of fillInNodeDefaults on it
    respBody,   \* the body of a response handed to a decoder
    decoded     \* what the decoder returned for it (Nil before it ran)

\* The state of one client session, and the values the node functions work on.
sessionVars == <<client, crumbs, jar, ncOpts, ncIdx, ncPc, ncErr, proc, lastBuild, attached,
                 fetched, fetchCount, opsStarted>>

valueVars == <<node, nodeGiven, fills, respBody, decoded>>

vars == <<client, crumbs, jar, ncOpts, ncIdx, ncPc, ncErr, proc, lastBuild, attached,
          fetched, fetchCount, opsStarted, node, nodeGiven, fills, respBody, decoded>>

(***************************************************************************)
(* Bounds of the model.                                                    *)
(***************************************************************************)
MaxOpts == 2      \* longest option list handed to NewClient
MaxOps == 2       \* operations called on one client by uncoordinated callers
MaxSeqOps == 3    \* operations called on one client by callers that serialise
MaxFills == 2     \* calls of fillInNodeDefaults on one Node

\* The nil pointer / nil error / nil interface.
Nil == [nil |-> TRUE]

(***************************************************************************)
(* Package constants.                                                      *)
(***************************************************************************)
crumbURL == "/crumbIssuer/api/json"
defaultBaseURL == "http://127.0.0.1:8080"
NodesCreateURL == "/computer/doCreateItem"
NodesListURL == "/computer/api/json"
NodesGetURL == "/computer/%s/config.xml"
NodesDeleteURL == "/computer/%s/doDelete"

(***************************************************************************)
(* NewClient and its options.                                              *)
(***************************************************************************)
\* A base URL url.Parse rejects (missing closing bracket of the host).
badBaseURL == "http://[::1"

ErrBothCredentials == [kind |-> "config", msg |-> "cannot set both API token and password"]

\* &Client{baseURL: defaultBaseURL}
ZeroClient ==
    [httpClient |-> Nil, baseURL |-> defaultBaseURL,
     userName |-> "", password |-> "", apiToken |-> ""]

\* An http.Client the caller configured itself: its own transport, no cookie jar.
CallerHTTPClient == [Jar |-> FALSE, Transport |-> [kind |-> "caller"]]

DefaultHTTPClient == [Jar |-> TRUE, Transport |-> Nil]

BasicAuthTransport(userName, secret) ==
    [kind |-> "BasicAuthTransport", Username |-> userName, Password |-> secret]

WithClient(hc, c) == [c |-> [c EXCEPT !.httpClient = hc], err |-> Nil]

WithBaseURL(baseURL, c) == [c |-> [c EXCEPT !.baseURL = baseURL], err |-> Nil]

WithPassword(userName, password, c) ==
    IF c.apiToken # ""
    THEN [c |-> c, err |-> ErrBothCredentials]
    ELSE [c |-> [c EXCEPT !.userName = userName, !.password = password], err |-> Nil]

WithToken(userName, apiToken, c) ==
    IF c.password # ""
    THEN [c |-> c, err |-> ErrBothCredentials]
    ELSE [c |-> [c EXCEPT !.userName = userName, !.apiToken = apiToken], err |-> Nil]

\* The option values callers hand to NewClient.
UserNames == {"admin"}
Secrets == {"", "s3cret"}

Options ==
    {[opt |-> "WithClient", a |-> "", b |-> ""],
     [opt |-> "WithBaseURL", a |-> badBaseURL, b |-> ""]}
    \cup {[opt |-> "WithPassword", a |-> u, b |-> s] : u \in UserNames, s \in Secrets}
    \cup {[opt |-> "WithToken", a |-> u, b |-> s] : u \in UserNames, s \in Secrets}

\* opt(c) of NewClient's loop: the closure the option constructor returned.
ApplyOption(o, c) ==
    CASE o.opt = "WithClient" -> WithClient(CallerHTTPClient, c)
      [] o.opt = "WithBaseURL" -> WithBaseURL(o.a, c)
      [] o.opt = "WithPassword" -> WithPassword(o.a, o.b, c)
      [] o.opt = "WithToken" -> WithToken(o.a, o.b, c)

\* NewClient after the loop: the default http.Client and the auth transport.
NewClientFinish(c) ==
    LET c1 == IF c.httpClient = Nil THEN [c EXCEPT !.httpClient = DefaultHTTPClient] ELSE c
        c2 == IF c1.apiToken # ""
              THEN [c1 EXCEPT !.httpClient.Transport = BasicAuthTransport(c1.userName, c1.apiToken)]
              ELSE c1
        c3 == IF c2.password # ""
              THEN [c2 EXCEPT !.httpClient.Transport = BasicAuthTransport(c2.userName, c2.password)]
              ELSE c2
    IN c3

\* NewClient(opts...) as a function of its arguments: [c, err].
RECURSIVE NewClientLoop(_, _, _)
NewClientLoop(opts, i, c) ==
    IF i > Len(opts)
    THEN [c |-> NewClientFinish(c), err |-> Nil]
    ELSE LET r == ApplyOption(opts[i], c)
         IN IF r.err # Nil
            THEN [c |-> Nil, err |-> r.err]
            ELSE NewClientLoop(opts, i + 1, r.c)

NewClient(opts) == NewClientLoop(opts, 1, ZeroClient)

OptionLists == UNION {[1..n -> Options] : n \in 0..MaxOpts}

\* The option lists of the sessions the operations are run on: a client with
\* credentials (and the default cookie jar), a client on the caller's own
\* http.Client (no jar, no credentials), and a client with a bad base URL.
SessionOptionLists ==
    {<<[opt |-> "WithPassword", a |-> "admin", b |-> "s3cret"]>>,
     <<[opt |-> "WithClient", a |-> "", b |-> ""]>>,
     <<[opt |-> "WithBaseURL", a |-> badBaseURL, b |-> ""]>>}

(***************************************************************************)
(* Requests, headers, responses and errors.                                *)
(***************************************************************************)
\* textproto.CanonicalMIMEHeaderKey on the header names that occur.
CanonicalMIMEHeaderKey(k) ==
    CASE k = "crumb" -> "Crumb"
      [] k = "content-type" -> "Content-Type"
      [] k = "jenkins-crumb" -> "Jenkins-Crumb"
      [] OTHER -> k

\* http.Header as the list of its (canonical name, value) entries.
HeaderSet(h, k, v) ==
    SelectSeq(h, LAMBDA e : e[1] # CanonicalMIMEHeaderKey(k))
        \o << <<CanonicalMIMEHeaderKey(k), v>> >>

\* Variant of HeaderAdd that adds nothing.
HeaderAddDropped(h, k, v) == h

HeaderAdd(h, k, v) == Append(h, <<CanonicalMIMEHeaderKey(k), v>>)

\* Names the callers pass; "%zz" is an invalid URL escape, so url.Parse rejects the path.
NodeNames == {"agent-1", "%zz"}

\* fmt.Sprintf(tpl, name) for the two templates with a %s, the template itself otherwise.
Path(tpl, name) == [tpl |-> tpl, name |-> name]

\* url.Parse inside http.NewRequestWithContext on baseURL + path.
URLParses(baseURL, path) == baseURL # badBaseURL /\ path.name # "%zz"

ErrInvalidRequest == [kind |-> "request"]
ErrTransport == [kind |-> "transport"]
ErrReadBody == [kind |-> "read"]
ErrJSON == [kind |-> "json"]
ErrXML == [kind |-> "xml"]
ErrNilDeref == [kind |-> "nil pointer dereference"]

\* Variant of newRequest that takes a nil context.
newRequestAnyContext(c, ctx, method, path, reqBody) ==
    IF ~URLParses(c.baseURL, path)
    THEN [req |-> Nil, err |-> ErrInvalidRequest]
    ELSE [req |-> [Method |-> method, baseURL |-> c.baseURL, path |-> path,
                   body |-> reqBody, Header |-> <<>>, crumbId |-> 0, reused |-> FALSE],
          err |-> Nil]

\* newRequest: http.NewRequestWithContext fails on a nil context or an unparsable URL.
newRequest(c, ctx, method, path, reqBody) ==
    IF ctx = "nil" \/ ~URLParses(c.baseURL, path)
    THEN [req |-> Nil, err |-> ErrInvalidRequest]
    ELSE [req |-> [Method |-> method, baseURL |-> c.baseURL, path |-> path,
                   body |-> reqBody, Header |-> <<>>, crumbId |-> 0, reused |-> FALSE],
          err |-> Nil]

\* The statuses the server answers with.
Statuses == {200, 300, 404}

\* http.StatusText: empty for a code without a registered text.
StatusText(code) ==
    CASE code = 200 -> "OK"
      [] code = 300 -> "Multiple Choices"
      [] code = 404 -> "Not Found"
      [] OTHER -> ""

\* Response.Status, the status line the server sent.
StatusLine(code) ==
    CASE code = 200 -> "200 OK"
      [] code = 300 -> "300 Multiple Choices"
      [] code = 404 -> "404 Not Found"

\* resp.Cookies(): the server sends a session cookie with every response, and
\* its value tells the responses apart.
Cookies(code) ==
    CASE code = 200 -> {"JSESSIONID=ok"}
      [] code = 300 -> {"JSESSIONID=redirect"}
      [] code = 404 -> {"JSESSIONID=missing"}

\* http.Response as far as the client looks at it.
Responses == {[StatusCode |-> code, cookies |-> Cookies(code)] : code \in Statuses}

\* fmt.Errorf("%d %s", code, text)
StatusError(code, text) == [kind |-> "status", code |-> code, text |-> text]

\* Variant of the status test that lets 300 through.
StatusIsErrorAbove300(code) == code > 300

\* The status test of get, postForm and post.
StatusIsError(code) == code > 299

\* The cookie-store update of get, postForm and post.
JarAfter(c, cookieJar, resp) ==
    IF c.httpClient.Jar THEN cookieJar \cup resp.cookies ELSE cookieJar

\* The crumb documents the crumb issuer answers with.
CrumbFields == {"crumb"}
CrumbValues == {"abc"}
CrumbDocs == [crumbRequestField : CrumbFields, crumb : CrumbValues]

\* What io.ReadAll and the decoder make of a response body.
BodyReadError == [kind |-> "read error"]
BodyMalformed == [kind |-> "malformed"]
BodyOK(doc) == [kind |-> "ok", doc |-> doc]

(***************************************************************************)
(* Nodes, launchers and fillInNodeDefaults.                                *)
(***************************************************************************)
NodeModeNormal == "NORMAL"
NodeModeExclusive == "EXCLUSIVE"

\* The zero value of WorkDirSettings.
ZeroWorkDirSettings ==
    [Disabled |-> FALSE, InternalDir |-> "", FailIfWorkDirIsMissing |-> FALSE]

\* &JNLPLauncher{...}
JNLPLauncher(staplerClass, webSocket) ==
    [type |-> "*JNLPLauncher", StaplerClass |-> staplerClass, WebSocket |-> webSocket,
     WorkDirSettings |-> ZeroWorkDirSettings]

\* Variant of DefaultJNLPLauncher that carries another class string.
DefaultJNLPLauncherOtherClass == JNLPLauncher("hudson.slaves.SSHLauncher", FALSE)

DefaultJNLPLauncher == JNLPLauncher("hudson.slaves.JNLPLauncher", FALSE)

NewNonVerifyingKeyVerificationStrategy ==
    [type |-> "*NonVerifyingKeyVerificationStrategy",
     StaplerClass |-> "hudson.plugins.sshslaves.verifiers.NonVerifyingKeyVerificationStrategy"]

\* &SSHLauncher{...}
SSHLauncher(staplerClass, host, port, strategy) ==
    [type |-> "*SSHLauncher", StaplerClass |-> staplerClass, Host |-> host, Port |-> port,
     CredentialID |-> "", LaunchTimeoutSeconds |-> 0, MaxNumRetries |-> 0,
     RetryWaitTime |-> 0, TCPNoDelay |-> FALSE,
     SSHHostKeyVerificationStrategy |-> strategy]

\* NewSSHLauncher(host, port, "", 0, 0, 0, false, strategy)
NewSSHLauncher(host, port, strategy) ==
    SSHLauncher("hudson.plugins.sshslaves.SSHLauncher", host, port, strategy)

RetentionsStrategy(staplerClass) == [StaplerClass |-> staplerClass]

DefaultRetentionsStrategy == RetentionsStrategy("hudson.slaves.RetentionStrategy$Always")

NodeProperties(bag) == [StaplerClassBag |-> bag]

DefaultNodeProperties == NodeProperties("true")

DefaultNodeType == "hudson.slaves.DumbSlave$DescriptorImpl"

\* The zero value of Node.
ZeroNode ==
    [Name |-> "", Description |-> "", RemoteFS |-> "", NumExecutors |-> 0, Mode |-> "",
     Type |-> "", Labels |-> <<>>, RetentionsStrategy |-> Nil, Properties |-> Nil,
     Launcher |-> Nil]

\* Variant of fillInNodeDefaults that counts the executors up on every call.
fillInNodeDefaultsCounting(n) ==
    [n EXCEPT
        !.Launcher = IF @ = Nil THEN DefaultJNLPLauncher ELSE @,
        !.Properties = IF @ = Nil THEN DefaultNodeProperties ELSE @,
        !.Type = IF @ = "" THEN DefaultNodeType ELSE @,
        !.NumExecutors = @ + 1,
        !.RetentionsStrategy = IF @ = Nil THEN DefaultRetentionsStrategy ELSE @]

\* Variant of fillInNodeDefaults that sets the type whatever it was.
fillInNodeDefaultsTypeForced(n) ==
    [n EXCEPT
        !.Launcher = IF @ = Nil THEN DefaultJNLPLauncher ELSE @,
        !.Properties = IF @ = Nil THEN DefaultNodeProperties ELSE @,
        !.Type = DefaultNodeType,
        !.NumExecutors = IF @ = 0 THEN 1 ELSE @,
        !.RetentionsStrategy = IF @ = Nil THEN DefaultRetentionsStrategy ELSE @]

\* (n *Node) fillInNodeDefaults(): the Node it leaves in *n.
fillInNodeDefaults(n) ==
    [n EXCEPT
        !.Launcher = IF @ = Nil THEN DefaultJNLPLauncher ELSE @,
        !.Properties = IF @ = Nil THEN DefaultNodeProperties ELSE @,
        !.Type = IF @ = "" THEN DefaultNodeType ELSE @,
        !.NumExecutors = IF @ = 0 THEN 1 ELSE @,
        !.RetentionsStrategy = IF @ = Nil THEN DefaultRetentionsStrategy ELSE @]

\* The Node values callers make: every combination of set and unset fields.
NodeValues ==
    {[Name |-> "test-node", Description |-> "", RemoteFS |-> "/var/lib/jenkins",
      NumExecutors |-> e, Mode |-> m, Type |-> t, Labels |-> l,
      RetentionsStrategy |-> r, Properties |-> pp, Launcher |-> la] :
        e \in {0, 1, 4, -1},
        m \in {"", NodeModeExclusive},
        t \in {"", DefaultNodeType, "hudson.slaves.DumbSlave"},
        l \in {<<>>, <<"test">>},
        r \in {Nil, DefaultRetentionsStrategy,
               RetentionsStrategy("hudson.slaves.RetentionStrategy$Demand")},
        pp \in {Nil, DefaultNodeProperties, NodeProperties("")},
        la \in {Nil, DefaultJNLPLauncher,
                NewSSHLauncher("ss", 22, NewNonVerifyingKeyVerificationStrategy)}}

(***************************************************************************)
(* XML and JSON documents, and the decoders of Node and SSHLauncher.       *)
(***************************************************************************)
\* An XML element: its name, its class attribute ("" when it has none), its
\* character data and its child elements in document order.
Elem(name, class, text, children) ==
    [name |-> name, class |-> class, text |-> text, children |-> children]

Leaf(name, text) == Elem(name, "", text, <<>>)

\* The positions of the children of e named nm (names are case-sensitive).
Named(e, nm) == {i \in 1..Len(e.children) : e.children[i].name = nm}

Has(e, nm) == Named(e, nm) # {}

\* The child a field tagged nm ends up holding: the last one of that name.
Child(e, nm) ==
    e.children[CHOOSE i \in Named(e, nm) : \A j \in Named(e, nm) : j <= i]

\* strconv.ParseInt on the texts the documents use.
IntOf == [t \in {"0", "1", "4", "22", "60"} |->
            CASE t = "0" -> 0 [] t = "1" -> 1 [] t = "4" -> 4 [] t = "22" -> 22
              [] t = "60" -> 60]

\* strconv.ParseBool
TrueTexts == {"1", "t", "T", "TRUE", "true", "True"}
FalseTexts == {"0", "f", "F", "FALSE", "false", "False"}

\* encoding/xml copyValue: empty character data gives the zero value.
IntConverts(t) == t = "" \/ t \in DOMAIN IntOf
BoolConverts(t) == t = "" \/ t \in TrueTexts \/ t \in FalseTexts

\* *strconv.NumError: `strconv.<fn>: parsing "<num>": invalid syntax`
NumError(fn, num) ==
    [kind |-> "strconv.NumError", parts |-> <<"strconv.", fn, ": parsing ", num, ": invalid syntax">>]

\* *xml.SyntaxError of a document that ends before its root element is closed.
XMLSyntaxError == [kind |-> "xml.SyntaxError", parts |-> <<"XML syntax error: unexpected EOF">>]

\* The error of a version other than 1.0 in the XML declaration.
XMLVersionError(v) ==
    [kind |-> "xml", parts |-> <<"xml: unsupported version ", v, "; only version 1.0 is supported">>]

\* xml.UnmarshalError of a root element that is not the XMLName of the target.
XMLNameError(want, have) ==
    [kind |-> "xml.UnmarshalError",
     parts |-> <<"expected element type <", want, "> but have <", have, ">">>]

\* *json.SyntaxError
JSONSyntaxError == [kind |-> "json.SyntaxError", parts |-> <<"unexpected end of JSON input">>]

\* The text of an error holds the string s.
Mentions(err, s) == \E i \in 1..Len(err.parts) : err.parts[i] = s

StrField(e, nm) == IF Has(e, nm) THEN Child(e, nm).text ELSE ""
IntField(e, nm) ==
    IF Has(e, nm) /\ Child(e, nm).text \in DOMAIN IntOf THEN IntOf[Child(e, nm).text] ELSE 0
BoolField(e, nm) == Has(e, nm) /\ Child(e, nm).text \in TrueTexts

\* The children of e, in document order, whose text does not convert to the
\* int or bool field they are decoded into.
Unconvertible(e, ints, bools) ==
    {i \in 1..Len(e.children) :
        \/ e.children[i].name \in ints /\ ~IntConverts(e.children[i].text)
        \/ e.children[i].name \in bools /\ ~BoolConverts(e.children[i].text)}

\* Variant of ConvertError that lets every text through.
ConvertErrorIgnored(e, ints, bools) == Nil

\* The error the decoder stops at: that of the first such child, or Nil.
ConvertError(e, ints, bools) ==
    LET bad == Unconvertible(e, ints, bools)
    IN IF bad = {} THEN Nil
       ELSE LET c == e.children[CHOOSE i \in bad : \A j \in bad : i <= j]
            IN NumError(IF c.name \in ints THEN "ParseInt" ELSE "ParseBool", c.text)

\* Variant of Reroot that loses the content.
RerootEmpty(e) == Elem("root", "", "", <<>>)

\* fmt.Sprintf("<root>%s</root>", InnerXML): the content of e under a new
\* root element, which has none of the attributes of e.
Reroot(e) == Elem("root", "", e.text, e.children)

\* The element a field tagged nm captures with ",innerxml" and "class,attr";
\* an element that is not there leaves both empty.
Captured(e, nm) == IF Has(e, nm) THEN Child(e, nm) ELSE Elem(nm, "", "", <<>>)

KnownHostsFileClass == "hudson.plugins.sshslaves.verifiers.KnownHostsFileKeyVerificationStrategy"
ManuallyProvidedClass == "hudson.plugins.sshslaves.verifiers.ManuallyProvidedKeyVerificationStrategy"
ManuallyTrustedClass == "hudson.plugins.sshslaves.verifiers.ManuallyTrustedKeyVerificationStrategy"

\* &KnownHostsFileKeyVerificationStrategy{...}
KnownHostsFileKeyVerificationStrategy(staplerClass) ==
    [type |-> "*KnownHostsFileKeyVerificationStrategy", StaplerClass |-> staplerClass]

\* &ManuallyProvidedKeyVerificationStrategy{...}
ManuallyProvidedKeyVerificationStrategy(staplerClass, algorithm, key) ==
    [type |-> "*ManuallyProvidedKeyVerificationStrategy", StaplerClass |-> staplerClass,
     Key |-> [Algorithm |-> algorithm, Key |-> key]]

\* &ManuallyTrustedKeyVerificationStrategy{...}
ManuallyTrustedKeyVerificationStrategy(staplerClass, trust) ==
    [type |-> "*ManuallyTrustedKeyVerificationStrategy", StaplerClass |-> staplerClass,
     RequireInitialManualTrust |-> trust]

\* The switch of SSHLauncher.UnmarshalXML on the captured strategy element s:
\* the strategy value and the error of the second parse.
StrategySwitch(s) ==
    LET item == Reroot(s)
    IN CASE s.class = NewNonVerifyingKeyVerificationStrategy.StaplerClass ->
              [val |-> [NewNonVerifyingKeyVerificationStrategy EXCEPT !.StaplerClass = s.class],
               err |-> Nil]
         [] s.class = KnownHostsFileClass ->
              [val |-> KnownHostsFileKeyVerificationStrategy(s.class), err |-> Nil]
         [] s.class = ManuallyProvidedClass ->
              [val |-> ManuallyProvidedKeyVerificationStrategy(
                          s.class,
                          StrField(Captured(item, "key"), "algorithm"),
                          StrField(Captured(item, "key"), "key")),
               err |-> Nil]
         [] s.class = ManuallyTrustedClass ->
              [val |-> ManuallyTrustedKeyVerificationStrategy(
                          s.class, BoolField(item, "requireInitialManualTrust")),
               err |-> ConvertError(item, {}, {"requireInitialManualTrust"})]
         [] OTHER -> [val |-> Nil, err |-> Nil]

SSHLauncherInts == {"port", "launchTimeoutSeconds", "maxNumRetries", "retryWaitTime"}
SSHLauncherBools == {"tcpNoDelay"}

\* What DecodeElement fails with: a text that does not convert, or the end of
\* the document before the end of the element.
DecodeElementError(e, closed, ints, bools) ==
    IF ConvertError(e, ints, bools) # Nil THEN ConvertError(e, ints, bools)
    ELSE IF ~closed THEN XMLSyntaxError
    ELSE Nil

\* SSHLauncher.UnmarshalXML on the start element e: DecodeElement into the
\* fields of the launcher and the captured strategy element, then the switch.
SSHLauncherUnmarshalXML(e, closed) ==
    LET err1 == DecodeElementError(e, closed, SSHLauncherInts, SSHLauncherBools)
        sw == StrategySwitch(Captured(e, "sshHostKeyVerificationStrategy"))
        first == [type |-> "*SSHLauncher", StaplerClass |-> e.class,
                  Host |-> StrField(e, "host"), Port |-> IntField(e, "port"),
                  CredentialID |-> StrField(e, "credentialId"),
                  LaunchTimeoutSeconds |-> IntField(e, "launchTimeoutSeconds"),
                  MaxNumRetries |-> IntField(e, "maxNumRetries"),
                  RetryWaitTime |-> IntField(e, "retryWaitTime"),
                  TCPNoDelay |-> BoolField(e, "tcpNoDelay"),
                  SSHHostKeyVerificationStrategy |-> Nil]
    IN IF err1 # Nil THEN [val |-> Nil, err |-> err1]
       ELSE IF sw.err # Nil THEN [val |-> Nil, err |-> sw.err]
       ELSE [val |-> [first EXCEPT !.SSHHostKeyVerificationStrategy = sw.val], err |-> Nil]

WorkDirBools == {"disabled", "failIfWorkDirIsMissing"}

\* xml.Unmarshal into a *JNLPLauncher from the root element e.
JNLPLauncherUnmarshal(e, closed) ==
    LET w == Captured(e, "workDirSettings")
        errW == ConvertError(w, {}, WorkDirBools)
        err1 == DecodeElementError(e, closed, {}, {"websocket"})
        \* the error inside workDirSettings is the first when no websocket
        \* element before it fails to convert
        wFirst == \A i \in Unconvertible(e, {}, {"websocket"}) :
                     \E j \in Named(e, "workDirSettings") : j < i
    IN IF err1 # Nil \/ errW # Nil
       THEN [val |-> Nil, err |-> IF errW # Nil /\ wFirst THEN errW ELSE err1]
       ELSE [val |-> [JNLPLauncher(e.class, BoolField(e, "websocket")) EXCEPT
                         !.WorkDirSettings =
                            [Disabled |-> BoolField(w, "disabled"),
                             InternalDir |-> StrField(w, "internalDir"),
                             FailIfWorkDirIsMissing |-> BoolField(w, "failIfWorkDirIsMissing")]],
             err |-> Nil]

\* Variant of the launcher switch that takes every class but the SSH one for
\* the JNLP launcher.
LauncherSwitchDefaulting(l) ==
    IF l.class = "hudson.slaves.SSHLauncher"
    THEN SSHLauncherUnmarshalXML(Reroot(l), TRUE)
    ELSE JNLPLauncherUnmarshal(Reroot(l), TRUE)

\* The switch of Node.UnmarshalXML on the captured launcher element l.
LauncherSwitch(l) ==
    CASE l.class = "hudson.slaves.JNLPLauncher" -> JNLPLauncherUnmarshal(Reroot(l), TRUE)
      [] l.class = "hudson.slaves.SSHLauncher" -> SSHLauncherUnmarshalXML(Reroot(l), TRUE)
      [] OTHER -> [val |-> Nil, err |-> Nil]

\* Labels: one string per <label> element, in document order.
LabelsOf(e) ==
    LET idx == Named(e, "label")
        RECURSIVE upTo(_)
        upTo(k) == IF k = 0 THEN <<>>
                   ELSE IF k \in idx THEN Append(upTo(k - 1), e.children[k].text)
                   ELSE upTo(k - 1)
    IN upTo(Len(e.children))

\* Node.UnmarshalXML on the start element e: DecodeElement into the fields of
\* the Node (the root has to be the XMLName of Node) and the captured launcher
\* element, then the switch.
NodeUnmarshalXML(e, closed) ==
    LET err1 == IF e.name # "slave" THEN XMLNameError("slave", e.name)
                ELSE DecodeElementError(e, closed, {"numExecutors"}, {})
        sw == LauncherSwitch(Captured(e, "launcher"))
        first == [Name |-> StrField(e, "name"), Description |-> StrField(e, "description"),
                  RemoteFS |-> StrField(e, "remoteFS"),
                  NumExecutors |-> IntField(e, "numExecutors"),
                  Mode |-> StrField(e, "mode"), Type |-> StrField(e, "type"),
                  Labels |-> LabelsOf(e),
                  RetentionsStrategy |->
                     IF Has(e, "retentionsStrategy")
                     THEN RetentionsStrategy(Child(e, "retentionsStrategy").class) ELSE Nil,
                  Properties |->
                     IF Has(e, "nodeProperties")
                     THEN NodeProperties(StrField(Child(e, "nodeProperties"), "StaplerClassBag"))
                     ELSE Nil,
                  Launcher |-> Nil]
    IN IF err1 # Nil THEN [val |-> Nil, err |-> err1]
       ELSE IF sw.err # Nil THEN [val |-> Nil, err |-> sw.err]
       ELSE [val |-> [first EXCEPT !.Launcher = sw.val], err |-> Nil]

\* An XML document: the version of its declaration, its root element, and
\* whether the root element is closed before the document ends.
XMLDoc(version, root, closed) ==
    [kind |-> "xml", version |-> version, root |-> root, closed |-> closed]

\* strings.Replace(body, `xml version="1.1"`, `xml version="1.0"`, -1) of Get.
ReplaceVersion(doc) == [doc EXCEPT !.version = IF @ = "1.1" THEN "1.0" ELSE @]

\* The error of the XML declaration of doc, if it has one: only version 1.0
\* is supported.
XMLDeclError(doc) ==
    IF doc.version \notin {"", "1.0"} THEN XMLVersionError(doc.version) ELSE Nil

\* xml.Unmarshal(body, &node): the XML declaration, then Node.UnmarshalXML on
\* the root element.
XMLUnmarshalNode(doc) ==
    IF XMLDeclError(doc) # Nil THEN [val |-> Nil, err |-> XMLDeclError(doc)]
    ELSE NodeUnmarshalXML(doc.root, doc.closed)

\* xml.Unmarshal(inputXML, &launcher): the same for an SSHLauncher.
XMLUnmarshalSSHLauncher(doc) ==
    IF XMLDeclError(doc) # Nil THEN [val |-> Nil, err |-> XMLDeclError(doc)]
    ELSE SSHLauncherUnmarshalXML(doc.root, doc.closed)

\* The value of key k of the JSON object o, or the zero value of the field.
JField(o, k, zero) == IF k \in DOMAIN o THEN o[k] ELSE zero

\* json.Unmarshal of one entry of "computer" into a Computer.
Computer(o) ==
    [DisplayName |-> JField(o, "displayName", ""),
     Description |-> JField(o, "description", ""),
     NumExecutors |-> JField(o, "numExecutors", 0),
     Offline |-> JField(o, "offline", FALSE)]

\* A JSON body: the entries of its "computer" array, and whether the text is
\* complete (it may end in the middle of a value).
JSONDoc(computer, complete) == [kind |-> "json", computer |-> computer, complete |-> complete]

\* json.Unmarshal(body, &listResp)
JSONUnmarshal(doc) ==
    IF ~doc.complete THEN [val |-> Nil, err |-> JSONSyntaxError]
    ELSE [val |-> [Computer |-> [i \in 1..Len(doc.computer) |-> Computer(doc.computer[i])]],
          err |-> Nil]

\* Variant of the projection of List that also copies the executor count.
NodeOfComputerWithExecutors(c) ==
    [ZeroNode EXCEPT !.Name = c.DisplayName, !.Description = c.Description,
                     !.NumExecutors = c.NumExecutors]

\* Node{Name: node.DisplayName, Description: node.Description} of List.
NodeOfComputer(c) ==
    [ZeroNode EXCEPT !.Name = c.DisplayName, !.Description = c.Description]

\* List once get returned resp and the body was read: (nodes, resp, err).
ListDecoded(resp, doc) ==
    LET r == JSONUnmarshal(doc)
    IN IF r.err # Nil THEN [val |-> Nil, resp |-> Nil, err |-> r.err]
       ELSE [val |-> [i \in 1..Len(r.val.Computer) |-> NodeOfComputer(r.val.Computer[i])],
             resp |-> Nil, err |-> Nil]

\* Get once get returned resp and the body was read: (node, resp, err).
GetDecoded(resp, doc) ==
    LET r == XMLUnmarshalNode(ReplaceVersion(doc))
    IN IF r.err # Nil THEN [val |-> Nil, resp |-> resp, err |-> r.err]
       ELSE [val |-> r.val, resp |-> Nil, err |-> Nil]

\* The bound on the length of the computer array.
MaxComputers == 2

JSONComputers ==
    {[displayName |-> "test"],
     [displayName |-> "built-in", description |-> "the controller", numExecutors |-> 4,
      offline |-> TRUE]}

JSONDocs ==
    {JSONDoc(cs, complete) :
        cs \in UNION {[1..n -> JSONComputers] : n \in 0..MaxComputers},
        complete \in BOOLEAN}

StrategyClasses ==
    {NewNonVerifyingKeyVerificationStrategy.StaplerClass, KnownHostsFileClass,
     ManuallyProvidedClass, ManuallyTrustedClass, "com.example.OtherStrategy"}

\* The contents a strategy element comes with.
StrategyContents ==
    {<<>>,
     <<Elem("key", "", "", <<Leaf("algorithm", "ssh-rsa"), Leaf("key", "AAAAB3Nz")>>)>>}
    \cup {<<Leaf("requireInitialManualTrust", t)>> : t \in {"true", "false", "maybe"}}

StrategyElems ==
    {Elem("sshHostKeyVerificationStrategy", c, "", ch) :
        c \in StrategyClasses, ch \in StrategyContents}

\* The contents a launcher element comes with: those of an SSH launcher, and
\* those of a JNLP launcher as Jenkins and as the struct tags spell them.
SSHLauncherContents ==
    {<<Leaf("host", "ss"), Leaf("port", pt)>> \o st \o <<Leaf("tcpNoDelay", "true")>> :
        pt \in {"22", "abc"}, st \in {<<>>} \cup {<<e>> : e \in StrategyElems}}

JNLPLauncherContents ==
    {<<Elem("workDirSettings", "", "",
            <<Leaf("disabled", "false"), Leaf("internalDir", "remoting"),
              Leaf("failIfWorkDirIsMissing", "false")>>),
       Leaf(nm, t)>> : nm \in {"webSocket", "websocket"}, t \in {"true", "maybe"}}

LauncherClasses ==
    {DefaultJNLPLauncher.StaplerClass, "hudson.slaves.SSHLauncher",
     NewSSHLauncher("", 0, Nil).StaplerClass, "com.example.OtherLauncher"}

LauncherElems ==
    {Elem("launcher", c, "", ch) :
        c \in LauncherClasses, ch \in SSHLauncherContents \cup JNLPLauncherContents}

\* The documents a server answers Get with.
NodeDocs ==
    {XMLDoc(v, Elem(rt, "", "",
                    <<Leaf("name", "test"), Leaf("numExecutors", ne),
                      Elem("retentionStrategy", "hudson.slaves.RetentionStrategy$Always", "", <<>>)>>
                    \o l \o <<Leaf("label", "test"), Leaf("nodeProperties", "")>>),
            closed) :
        v \in {"1.0", "1.1", "2.0"}, rt \in {"slave", "agent"}, ne \in {"1", "abc"},
        l \in {<<>>} \cup {<<e>> : e \in LauncherElems}, closed \in BOOLEAN}

\* The documents an SSHLauncher is decoded from on its own.
SSHLauncherDocs ==
    {XMLDoc("", Elem("launcher", c, "", ch), closed) :
        c \in {"hudson.slaves.SSHLauncher", NewSSHLauncher("", 0, Nil).StaplerClass},
        ch \in SSHLauncherContents, closed \in BOOLEAN}

(***************************************************************************)
(* Caller goroutines.                                                      *)
(***************************************************************************)
Procs == {"g1", "g2"}

\* The ctx argument: nil, or a live context (its cancellation shows as a
\* transport error of the call in flight).
Contexts == {"nil", "background"}

IdleProc ==
    [pc |-> "idle", op |-> "", opNo |-> 0, ctx |-> "background", name |-> "",
     bodyOK |-> TRUE, node |-> Nil, req |-> Nil, seen |-> Nil, sent |-> <<>>, got |-> Nil,
     fetchId |-> 0, ret |-> Nil, out |-> Nil]

NewCall(op, ctx, name, bodyOK) ==
    [IdleProc EXCEPT !.op = op, !.opNo = opsStarted + 1, !.ctx = ctx, !.name = name,
                     !.bodyOK = bodyOK]

\* The values a client function returned: (resp, err).
Ret(fn, resp, err) == [fn |-> fn, resp |-> resp, err |-> err]

\* The values a NodesService method returned: (value, resp, err).
Out(val, resp, err) == [val |-> val, resp |-> resp, err |-> err]

TheNode == [kind |-> "*Node"]
TheNodes == [kind |-> "[]Node"]

Done(pr, ret, out) == [pr EXCEPT !.pc = "done", !.seen = Nil, !.ret = ret, !.out = out]

Panicked(pr) == [pr EXCEPT !.pc = "panic", !.seen = Nil]

NoPanic == \A q \in Procs : proc[q].pc # "panic"

\* The client function an operation goes through.
FnOf(op) ==
    CASE op = "Create" -> "postForm"
      [] op \in {"Update", "Delete"} -> "post"
      [] op \in {"List", "Get"} -> "get"
      [] OTHER -> op

MutatingOps == {"Create", "Update", "Delete"}

\* The goroutine that, under the serial discipline of the design, is the only
\* one to call operations that use the crumb state (one after another); the
\* other goroutine calls read operations at any time.
Owner == "g1"

\* A caller may call an operation when it runs none.
MayCall(p, serial, crumbOp) ==
    /\ ncPc = "done"
    /\ ncErr = Nil
    /\ NoPanic
    /\ proc[p].pc \in {"idle", "done"}
    /\ opsStarted < (IF serial THEN MaxSeqOps ELSE MaxOps)
    /\ (serial /\ crumbOp) => p = Owner

\* The request as the transport puts it on the network: BasicAuthTransport
\* sets the Authorization header in RoundTrip.
OnWire(c, req) ==
    [Method |-> req.Method, baseURL |-> req.baseURL, path |-> req.path,
     body |-> req.body, Header |-> req.Header, crumbId |-> req.crumbId,
     Authorization |->
        IF c.httpClient.Transport # Nil
           /\ c.httpClient.Transport.kind = "BasicAuthTransport"
        THEN [Username |-> c.httpClient.Transport.Username,
              Password |-> c.httpClient.Transport.Password]
        ELSE Nil]

\* A mutating-request build as the history records it: whether it produced a
\* request, the request's header, the crumb held right after it, and, at
\* the moment it was made, whether the crumb it attached had been attached
\* before, the crumb stored last, the number of crumbs stored at the build
\* before it (prevAny) and at the latest build before it that produced a
\* request (prevOk); -1 where there is none.
BuildEntry(p, pr, ok, req, after) ==
    [ok |-> ok,
     Header |-> IF ok THEN req.Header ELSE <<>>,
     crumbId |-> IF ok THEN req.crumbId ELSE 0,
     after |-> after,
     reused |-> IF ok THEN req.reused ELSE FALSE,
     latest |-> fetched', fetches |-> fetchCount',
     prevAny |-> IF lastBuild = Nil THEN -1 ELSE lastBuild.fetches,
     prevOk |-> IF lastBuild = Nil THEN -1
                ELSE IF lastBuild.ok THEN lastBuild.fetches ELSE lastBuild.prevOk]

\* httpClient.Do: no response (a transport error, a cancelled context) or a response.
DoOutcomes == {Nil} \cup Responses

\* Variant of DoReturns in which a call goes on after its context is cancelled.
DoReturnsIgnoringContext(ctx, outcome) == TRUE

\* What httpClient.Do may return under the context of the request: once the
\* context is cancelled (or its deadline has passed) the call is aborted and
\* returns the error of the context, with no response.
DoReturns(ctx, outcome) == ctx = "cancelled" => outcome = Nil

(***************************************************************************)
(* get, and the read operations List and Get.                              *)
(***************************************************************************)
\* Variant of getTail that updates the cookie store before the status test.
getTailJarFirst(c, cookieJar, outcome) ==
    IF outcome = Nil
    THEN [resp |-> Nil, err |-> ErrTransport, jar |-> cookieJar]
    ELSE IF StatusIsError(outcome.StatusCode)
         THEN [resp |-> outcome,
               err |-> StatusError(outcome.StatusCode, StatusLine(outcome.StatusCode)),
               jar |-> JarAfter(c, cookieJar, outcome)]
         ELSE [resp |-> outcome, err |-> Nil, jar |-> JarAfter(c, cookieJar, outcome)]

\* get after httpClient.Do returned: [resp, err, jar].
getTail(c, cookieJar, outcome) ==
    IF outcome = Nil
    THEN [resp |-> Nil, err |-> ErrTransport, jar |-> cookieJar]
    ELSE IF StatusIsError(outcome.StatusCode)
         THEN [resp |-> outcome,
               err |-> StatusError(outcome.StatusCode, StatusLine(outcome.StatusCode)),
               jar |-> cookieJar]
         ELSE [resp |-> outcome, err |-> Nil, jar |-> JarAfter(c, cookieJar, outcome)]

\* What List and Get return once get returned (resp, err) and the body was decoded.
ReadReturn(op, resp, err, body) ==
    IF err # Nil THEN Out(Nil, resp, err)
    ELSE IF body = BodyReadError THEN Out(Nil, resp, ErrReadBody)
    ELSE IF body = BodyMalformed
         THEN IF op = "List" THEN Out(Nil, Nil, ErrJSON) ELSE Out(Nil, resp, ErrXML)
    ELSE Out(IF op = "List" THEN TheNodes ELSE TheNode, Nil, Nil)

\* The call of get up to httpClient.Do.
CallGet(p, op, ctx, name, tpl) ==
    LET pr == NewCall(op, ctx, name, TRUE)
        r == newRequest(client, ctx, "GET", Path(tpl, name), Nil)
    IN /\ opsStarted' = opsStarted + 1
       /\ IF r.err # Nil
          THEN proc' = [proc EXCEPT ![p] =
                           Done(pr, Ret("get", Nil, r.err), ReadReturn(op, Nil, r.err, Nil))]
          ELSE proc' = [proc EXCEPT ![p] =
                           [pr EXCEPT !.pc = "getWait", !.req = r.req,
                                      !.sent = <<OnWire(client, r.req)>>]]
       /\ UNCHANGED valueVars
       /\ UNCHANGED <<client, crumbs, jar, ncOpts, ncIdx, ncPc, ncErr, lastBuild, attached,
                      fetched, fetchCount>>

List(p, serial) ==
    /\ MayCall(p, serial, FALSE)
    /\ \E ctx \in Contexts : CallGet(p, "List", ctx, "", NodesListURL)

Get(p, serial) ==
    /\ MayCall(p, serial, FALSE)
    /\ \E ctx \in Contexts, name \in NodeNames : CallGet(p, "Get", ctx, name, NodesGetURL)

\* httpClient.Do of a read operation returns; get and the operation finish.
ReadResponse(p) ==
    /\ NoPanic
    /\ proc[p].pc = "getWait"
    /\ \E outcome \in DoOutcomes, body \in {BodyReadError, BodyMalformed, BodyOK(Nil)} :
          LET pr == [proc[p] EXCEPT !.got = outcome]
              g == getTail(client, jar, outcome)
          IN /\ DoReturns(proc[p].ctx, outcome)
             /\ (g.err # Nil => body = BodyOK(Nil))
             /\ jar' = g.jar
             /\ proc' = [proc EXCEPT ![p] =
                            Done(pr, Ret("get", g.resp, g.err),
                                 ReadReturn(pr.op, g.resp, g.err, body))]
    /\ UNCHANGED valueVars
    /\ UNCHANGED <<client, crumbs, ncOpts, ncIdx, ncPc, ncErr, lastBuild, attached, fetched,
                   fetchCount, opsStarted>>

(***************************************************************************)
(* setCrumbs, newFormRequest, postForm, post and the mutating operations.  *)
(***************************************************************************)
\* Variant of ServiceReturn that drops the error of the client function.
ServiceReturnNoError(op, resp, err) ==
    CASE op = "Create" -> Out(TheNode, resp, Nil)
      [] op = "Update" -> Out(TheNode, Nil, Nil)
      [] OTHER -> Out(Nil, resp, Nil)

\* What Create, Update, Delete (and a direct call of setCrumbs) return once
\* the client function returned (resp, err).
ServiceReturn(op, resp, err) ==
    CASE op = "Create" ->
            IF err # Nil THEN Out(Nil, resp, err) ELSE Out(TheNode, resp, Nil)
      [] op = "Update" ->
            IF err # Nil THEN Out(Nil, resp, err) ELSE Out(TheNode, Nil, Nil)
      [] OTHER -> Out(Nil, resp, err)

\* crumbs := &Crumbs{}; json.Unmarshal(body, crumbs).  n numbers the fetch.
NewCrumbs(doc, n) ==
    [RequestField |-> doc.crumbRequestField, Value |-> doc.crumb, id |-> n]

\* Variant of setCrumbsTail that keeps a crumb already held instead of
\* replacing it by the one fetched.
setCrumbsTailKeepHeld(c, cookieJar, cr, n, outcome, body) ==
    LET g == getTail(c, cookieJar, outcome)
    IN IF g.err # Nil
       THEN [resp |-> g.resp, err |-> g.err, jar |-> g.jar, crumbs |-> cr]
       ELSE IF body = BodyReadError
       THEN [resp |-> g.resp, err |-> ErrReadBody, jar |-> g.jar, crumbs |-> cr]
       ELSE IF body = BodyMalformed
       THEN [resp |-> g.resp, err |-> ErrJSON, jar |-> g.jar, crumbs |-> cr]
       ELSE [resp |-> g.resp, err |-> Nil, jar |-> g.jar,
             crumbs |-> IF cr # Nil THEN cr ELSE NewCrumbs(body.doc, n + 1)]

\* Variant of setCrumbsTail that assigns the freshly allocated crumb before it
\* is decoded, so that a failed decode drops the crumb held before.
setCrumbsTailAssignFirst(c, cookieJar, cr, n, outcome, body) ==
    LET g == getTail(c, cookieJar, outcome)
    IN IF g.err # Nil
       THEN [resp |-> g.resp, err |-> g.err, jar |-> g.jar, crumbs |-> cr]
       ELSE IF body = BodyReadError
       THEN [resp |-> g.resp, err |-> ErrReadBody, jar |-> g.jar, crumbs |-> cr]
       ELSE IF body = BodyMalformed
       THEN [resp |-> g.resp, err |-> ErrJSON, jar |-> g.jar, crumbs |-> Nil]
       ELSE [resp |-> g.resp, err |-> Nil, jar |-> g.jar,
             crumbs |-> NewCrumbs(body.doc, n + 1)]

\* setCrumbs after httpClient.Do of its get returned: [resp, err, jar, crumbs].
\* cr is the crumb held before, n the number of crumbs stored so far.
setCrumbsTail(c, cookieJar, cr, n, outcome, body) ==
    LET g == getTail(c, cookieJar, outcome)
    IN IF g.err # Nil
       THEN [resp |-> g.resp, err |-> g.err, jar |-> g.jar, crumbs |-> cr]
       ELSE IF body = BodyReadError
       THEN [resp |-> g.resp, err |-> ErrReadBody, jar |-> g.jar, crumbs |-> cr]
       ELSE IF body = BodyMalformed
       THEN [resp |-> g.resp, err |-> ErrJSON, jar |-> g.jar, crumbs |-> cr]
       ELSE [resp |-> g.resp, err |-> Nil, jar |-> g.jar,
             crumbs |-> NewCrumbs(body.doc, n + 1)]

\* NodeRequest{Name: node.Name, Type: node.Type, JSON: string(str)} of Create,
\* str being json.Marshal(node).
NodeRequest(n) == [Name |-> n.Name, Type |-> n.Type, JSON |-> [json |-> n]]

\* The url.Values a form body is encoded from.
FormValues(v) == [kind |-> "form", values |-> v]

\* convertBodyStruct: one value per field, under the name of its json tag.
convertBodyStruct(b) ==
    FormValues([name |-> b.Name, type |-> b.Type, json |-> b.JSON])

\* xml.Marshal(body) of post; body is the Node of Update and nil for Delete.
XMLMarshal(n) == [kind |-> "xml", node |-> n]

\* newFormRequest up to the crumb test: newRequest and the Content-Type header.
newFormRequestHead(c, ctx, path, values) ==
    LET r == newRequest(c, ctx, "POST", path, values)
    IN IF r.err # Nil
       THEN [next |-> "return", req |-> Nil, err |-> r.err]
       ELSE [next |-> "checkCrumbs",
             req |-> [r.req EXCEPT !.Header =
                         HeaderSet(@, "Content-Type", "application/x-www-form-urlencoded")],
             err |-> Nil]

\* postForm between setCrumbs and the crumb test of newFormRequest.  The error
\* of newFormRequest is dropped (req, _ :=), and httpClient.Do(nil) dereferences
\* the nil request.
postFormPrepare(c, pr) ==
    LET h == newFormRequestHead(c, pr.ctx, Path(NodesCreateURL, ""),
                                convertBodyStruct(NodeRequest(pr.node)))
    IN IF h.err # Nil
       THEN [next |-> "panic", req |-> Nil, err |-> ErrNilDeref]
       ELSE h

\* post between setCrumbs and its crumb test: xml.Marshal, newRequest (error
\* dropped: req.Header.Set dereferences the nil request) and the Content-Type.
postPrepare(c, pr) ==
    IF ~pr.bodyOK
    THEN [next |-> "return", req |-> Nil, err |-> ErrXML]
    ELSE LET r == newRequest(c, pr.ctx, "POST",
                             Path(IF pr.op = "Update" THEN NodesGetURL ELSE NodesDeleteURL,
                                  pr.name),
                             XMLMarshal(pr.node))
         IN IF r.err # Nil
            THEN [next |-> "panic", req |-> Nil, err |-> ErrNilDeref]
            ELSE [next |-> "checkCrumbs",
                  req |-> [r.req EXCEPT !.Header =
                              HeaderSet(@, "Content-Type", "application/xml")],
                  err |-> Nil]

Prepare(c, pr) ==
    CASE pr.op = "Create" -> postFormPrepare(c, pr)
      [] pr.op \in {"Update", "Delete"} -> postPrepare(c, pr)
      [] OTHER -> newFormRequestHead(c, pr.ctx, Path(NodesGetURL, pr.name), FormValues(Nil))

\* The goroutine p, in state pr, goes on from the prepared request.
EnterBuild(p, pr, prep) ==
    CASE prep.next = "return" ->
            /\ proc' = [proc EXCEPT ![p] =
                           Done(pr, Ret(FnOf(pr.op), Nil, prep.err),
                                ServiceReturn(pr.op, Nil, prep.err))]
            /\ lastBuild' = IF pr.op = "newFormRequest"
                            THEN BuildEntry(p, pr, FALSE, Nil, crumbs')
                            ELSE lastBuild
      [] prep.next = "panic" ->
            /\ proc' = [proc EXCEPT ![p] = Panicked(pr)]
            /\ lastBuild' = BuildEntry(p, pr, FALSE, Nil, crumbs')
      [] prep.next = "checkCrumbs" ->
            /\ proc' = [proc EXCEPT ![p] = [pr EXCEPT !.pc = "checkCrumbs", !.req = prep.req]]
            /\ lastBuild' = lastBuild

\* The call of setCrumbs up to httpClient.Do of its get.
CallSetCrumbs(p, op, ctx, name, bodyOK, n) ==
    LET pr == [NewCall(op, ctx, name, bodyOK) EXCEPT !.node = n]
        r == newRequest(client, ctx, "GET", Path(crumbURL, ""), Nil)
    IN /\ opsStarted' = opsStarted + 1
       /\ IF r.err # Nil
          THEN proc' = [proc EXCEPT ![p] =
                           Done(pr, Ret(FnOf(op), Nil, r.err), ServiceReturn(op, Nil, r.err))]
          ELSE proc' = [proc EXCEPT ![p] =
                           [pr EXCEPT !.pc = "crumbWait", !.req = r.req,
                                      !.sent = <<OnWire(client, r.req)>>]]
       /\ UNCHANGED valueVars
       /\ UNCHANGED <<client, crumbs, jar, ncOpts, ncIdx, ncPc, ncErr, lastBuild, attached,
                      fetched, fetchCount>>

\* Variant of postForm that builds the request without calling setCrumbs.
postFormWithoutFetch(p, op, ctx, n) ==
    LET pr == [NewCall(op, ctx, n.Name, TRUE) EXCEPT !.node = n]
    IN /\ UNCHANGED valueVars
       /\ UNCHANGED <<client, crumbs, jar, ncOpts, ncIdx, ncPc, ncErr, attached, fetched,
                      fetchCount>>
       /\ EnterBuild(p, pr, Prepare(client, pr))
       /\ opsStarted' = opsStarted + 1

\* postForm and post start with setCrumbs.
postForm(p, op, ctx, n) == CallSetCrumbs(p, op, ctx, n.Name, TRUE, n)

post(p, op, ctx, name, bodyOK, n) == CallSetCrumbs(p, op, ctx, name, bodyOK, n)

\* The Nodes callers hand to Create and Update: one with only its name set.
SessionNodes(name) == {[ZeroNode EXCEPT !.Name = name]}

\* Nodes.Create: fillInNodeDefaults, json.Marshal of the node, postForm.
Create(p, serial) ==
    /\ MayCall(p, serial, TRUE)
    /\ \E ctx \in Contexts, jsonOK \in BOOLEAN, given \in SessionNodes("agent-1") :
          IF jsonOK
          THEN postForm(p, "Create", ctx, fillInNodeDefaults(given))
          ELSE /\ proc' = [proc EXCEPT ![p] =
                              Done([NewCall("Create", ctx, given.Name, FALSE)
                                       EXCEPT !.node = fillInNodeDefaults(given)],
                                   Nil, Out(Nil, Nil, ErrJSON))]
               /\ opsStarted' = opsStarted + 1
               /\ UNCHANGED valueVars
               /\ UNCHANGED <<client, crumbs, jar, ncOpts, ncIdx, ncPc, ncErr, lastBuild,
                              attached, fetched, fetchCount>>

\* Nodes.Update: post of the node to its config.xml.
Update(p, serial) ==
    /\ MayCall(p, serial, TRUE)
    /\ \E ctx \in Contexts, name \in NodeNames, bodyOK \in BOOLEAN :
          \E given \in SessionNodes(name) :
             post(p, "Update", ctx, given.Name, bodyOK, given)

\* Nodes.Delete: post of nil to doDelete (xml.Marshal(nil) cannot fail).
Delete(p, serial) ==
    /\ MayCall(p, serial, TRUE)
    /\ \E ctx \in Contexts, name \in NodeNames : post(p, "Delete", ctx, name, TRUE, Nil)

\* setCrumbs called on its own, as the package's tests do.
SetCrumbs(p) ==
    /\ MayCall(p, TRUE, TRUE)
    /\ \E ctx \in Contexts : CallSetCrumbs(p, "setCrumbs", ctx, "", TRUE, Nil)

\* newFormRequest called on its own, as the package's tests do.
NewFormRequest(p) ==
    /\ MayCall(p, TRUE, TRUE)
    /\ \E ctx \in Contexts, name \in NodeNames :
          LET pr == NewCall("newFormRequest", ctx, name, TRUE)
          IN /\ UNCHANGED valueVars
             /\ UNCHANGED <<client, crumbs, jar, ncOpts, ncIdx, ncPc, ncErr, attached,
                            fetched, fetchCount>>
             /\ EnterBuild(p, pr, Prepare(client, pr))
             /\ opsStarted' = opsStarted + 1

\* httpClient.Do of the crumb fetch returns; setCrumbs finishes and, in
\* postForm and post, the mutating request is prepared.
CrumbResponse(p) ==
    /\ NoPanic
    /\ proc[p].pc = "crumbWait"
    /\ \E outcome \in DoOutcomes,
          body \in {BodyReadError, BodyMalformed} \cup {BodyOK(d) : d \in CrumbDocs} :
          LET t == setCrumbsTail(client, jar, crumbs, fetchCount, outcome, body)
              pr0 == [proc[p] EXCEPT !.got = outcome]
          IN /\ DoReturns(proc[p].ctx, outcome)
             /\ (outcome = Nil \/ StatusIsError(outcome.StatusCode)) => body = BodyReadError
             /\ jar' = t.jar
             /\ crumbs' = t.crumbs
             /\ IF t.err # Nil
                THEN /\ proc' = [proc EXCEPT ![p] =
                                    Done(pr0, Ret(FnOf(pr0.op), t.resp, t.err),
                                         ServiceReturn(pr0.op, t.resp, t.err))]
                     /\ UNCHANGED <<lastBuild, fetched, fetchCount>>
                ELSE LET pr == [pr0 EXCEPT !.fetchId = fetchCount + 1]
                     IN /\ fetched' = NewCrumbs(body.doc, fetchCount + 1)
                        /\ fetchCount' = fetchCount + 1
                        /\ IF pr.op = "setCrumbs"
                           THEN /\ proc' = [proc EXCEPT ![p] =
                                               Done(pr, Ret("setCrumbs", t.resp, Nil),
                                                    ServiceReturn(pr.op, t.resp, Nil))]
                                /\ lastBuild' = lastBuild
                           ELSE EnterBuild(p, pr, Prepare(client, pr))
    /\ UNCHANGED valueVars
    /\ UNCHANGED <<client, ncOpts, ncIdx, ncPc, ncErr, attached, opsStarted>>

\* The build of a mutating request is complete: newFormRequest returns the
\* request; postForm and post hand it to httpClient.Do, and the POST goes out.
BuildDone(p, pr) ==
    /\ lastBuild' = BuildEntry(p, pr, TRUE, pr.req, crumbs')
    /\ proc' = [proc EXCEPT ![p] =
                   IF pr.op = "newFormRequest"
                   THEN Done(pr, Ret("newFormRequest", Nil, Nil), Out(Nil, Nil, Nil))
                   ELSE [pr EXCEPT !.pc = "postWait", !.seen = Nil,
                                   !.sent = Append(@, OnWire(client, pr.req))]]

\* Variant of the crumb test that never finds a crumb.
CheckCrumbsSkipped(p) ==
    /\ NoPanic
    /\ proc[p].pc = "checkCrumbs"
    /\ UNCHANGED valueVars
    /\ UNCHANGED <<client, crumbs, jar, ncOpts, ncIdx, ncPc, ncErr, attached, fetched,
                   fetchCount, opsStarted>>
    /\ BuildDone(p, proc[p])

\* if c.Crumbs != nil
CheckCrumbs(p) ==
    /\ NoPanic
    /\ proc[p].pc = "checkCrumbs"
    /\ UNCHANGED valueVars
    /\ UNCHANGED <<client, crumbs, jar, ncOpts, ncIdx, ncPc, ncErr, attached, fetched,
                   fetchCount, opsStarted>>
    /\ IF crumbs = Nil
       THEN BuildDone(p, proc[p])
       ELSE /\ proc' = [proc EXCEPT ![p] = [@ EXCEPT !.pc = "attach", !.seen = crumbs]]
            /\ lastBuild' = lastBuild

\* req.Header.Add(c.Crumbs.RequestField, c.Crumbs.Value).  The code takes no
\* lock: the pointer used is the one the test saw or the one held now, and a
\* nil pointer read now is dereferenced.
AttachCrumbs(p) ==
    /\ NoPanic
    /\ proc[p].pc = "attach"
    /\ UNCHANGED valueVars
    /\ UNCHANGED <<client, crumbs, jar, ncOpts, ncIdx, ncPc, ncErr, fetched, fetchCount,
                   opsStarted>>
    /\ \E src \in {proc[p].seen, crumbs} :
          /\ proc' = [proc EXCEPT ![p] =
                        IF src = Nil
                        THEN Panicked(@)
                        ELSE [@ EXCEPT !.pc = "clear",
                                       !.req.Header = HeaderAdd(@, src.RequestField, src.Value),
                                       !.req.crumbId = src.id,
                                       !.req.reused = src.id \in attached]]
          /\ attached' = IF src = Nil THEN attached ELSE attached \cup {src.id}
          /\ lastBuild' = IF src = Nil
                          THEN BuildEntry(p, proc[p], FALSE, Nil, crumbs)
                          ELSE lastBuild

\* Variant of CrumbsAfterAttach that keeps the crumb.
CrumbsKept(cr) == cr

\* c.Crumbs after a crumb was attached: crumbs are only valid for one request.
CrumbsAfterAttach(cr) == Nil

\* c.Crumbs = nil
ClearCrumbs(p) ==
    /\ NoPanic
    /\ proc[p].pc = "clear"
    /\ crumbs' = CrumbsAfterAttach(crumbs)
    /\ UNCHANGED valueVars
    /\ UNCHANGED <<client, jar, ncOpts, ncIdx, ncPc, ncErr, attached, fetched, fetchCount,
                   opsStarted>>
    /\ BuildDone(p, proc[p])

\* Variant of postTail that updates the cookie store before the status test.
postTailJarFirst(c, cookieJar, outcome) ==
    IF outcome = Nil
    THEN [resp |-> Nil, err |-> ErrTransport, jar |-> cookieJar]
    ELSE IF StatusIsError(outcome.StatusCode)
         THEN [resp |-> outcome,
               err |-> StatusError(outcome.StatusCode, StatusText(outcome.StatusCode)),
               jar |-> JarAfter(c, cookieJar, outcome)]
         ELSE [resp |-> outcome, err |-> Nil, jar |-> JarAfter(c, cookieJar, outcome)]

\* postForm and post after httpClient.Do returned: [resp, err, jar].
postTail(c, cookieJar, outcome) ==
    IF outcome = Nil
    THEN [resp |-> Nil, err |-> ErrTransport, jar |-> cookieJar]
    ELSE IF StatusIsError(outcome.StatusCode)
         THEN [resp |-> outcome,
               err |-> StatusError(outcome.StatusCode, StatusText(outcome.StatusCode)),
               jar |-> cookieJar]
         ELSE [resp |-> outcome, err |-> Nil, jar |-> JarAfter(c, cookieJar, outcome)]

\* Variant of PostResponse that sends the POST once more after a transport error.
PostResponseRetrying(p) ==
    /\ NoPanic
    /\ proc[p].pc = "postWait"
    /\ \E outcome \in DoOutcomes :
          LET pr == [proc[p] EXCEPT !.got = outcome]
              t == postTail(client, jar, outcome)
          IN /\ DoReturns(proc[p].ctx, outcome)
             /\ jar' = t.jar
             /\ proc' = [proc EXCEPT ![p] =
                            IF outcome = Nil /\ Len(pr.sent) < 3
                            THEN [pr EXCEPT !.sent = Append(@, OnWire(client, pr.req))]
                            ELSE Done(pr, Ret(FnOf(pr.op), t.resp, t.err),
                                      ServiceReturn(pr.op, t.resp, t.err))]
    /\ UNCHANGED valueVars
    /\ UNCHANGED <<client, crumbs, ncOpts, ncIdx, ncPc, ncErr, lastBuild, attached, fetched,
                   fetchCount, opsStarted>>

\* httpClient.Do of the POST returns; postForm or post and the operation finish.
PostResponse(p) ==
    /\ NoPanic
    /\ proc[p].pc = "postWait"
    /\ \E outcome \in DoOutcomes :
          LET pr == [proc[p] EXCEPT !.got = outcome]
              t == postTail(client, jar, outcome)
          IN /\ DoReturns(proc[p].ctx, outcome)
             /\ jar' = t.jar
             /\ proc' = [proc EXCEPT ![p] =
                            Done(pr, Ret(FnOf(pr.op), t.resp, t.err),
                                 ServiceReturn(pr.op, t.resp, t.err))]
    /\ UNCHANGED valueVars
    /\ UNCHANGED <<client, crumbs, ncOpts, ncIdx, ncPc, ncErr, lastBuild, attached, fetched,
                   fetchCount, opsStarted>>

\* The caller cancels the context of the operation p runs (or its deadline
\* passes) while the operation is under way.
Cancel(p) ==
    /\ NoPanic
    /\ proc[p].pc \notin {"idle", "done", "panic"}
    /\ proc[p].ctx = "background"
    /\ proc' = [proc EXCEPT ![p].ctx = "cancelled"]
    /\ UNCHANGED valueVars
    /\ UNCHANGED <<client, crumbs, jar, ncOpts, ncIdx, ncPc, ncErr, lastBuild, attached,
                   fetched, fetchCount, opsStarted>>

(***************************************************************************)
(* NewClient, one iteration of its loop at a time.                         *)
(***************************************************************************)
NewClientOption ==
    /\ ncPc = "loop"
    /\ ncIdx <= Len(ncOpts)
    /\ LET r == ApplyOption(ncOpts[ncIdx], client)
       IN IF r.err # Nil
          THEN /\ client' = Nil
               /\ ncErr' = r.err
               /\ ncPc' = "done"
               /\ ncIdx' = ncIdx
          ELSE /\ client' = r.c
               /\ ncIdx' = ncIdx + 1
               /\ UNCHANGED <<ncErr, ncPc>>
    /\ UNCHANGED valueVars
    /\ UNCHANGED <<crumbs, jar, ncOpts, proc, lastBuild, attached, fetched, fetchCount,
                   opsStarted>>

NewClientReturn ==
    /\ ncPc = "loop"
    /\ ncIdx > Len(ncOpts)
    /\ client' = NewClientFinish(client)
    /\ ncPc' = "done"
    /\ UNCHANGED valueVars
    /\ UNCHANGED <<crumbs, jar, ncOpts, ncIdx, ncErr, proc, lastBuild, attached, fetched,
                   fetchCount, opsStarted>>

(***************************************************************************)
(* Specifications.                                                         *)
(***************************************************************************)
\* No Node and no body is being worked on.
NoValues ==
    /\ node = Nil
    /\ nodeGiven = Nil
    /\ fills = 0
    /\ respBody = Nil
    /\ decoded = Nil

NoCalls ==
    /\ crumbs = Nil
    /\ jar = {}
    /\ proc = [p \in Procs |-> IdleProc]
    /\ lastBuild = Nil
    /\ attached = {}
    /\ fetched = Nil
    /\ fetchCount = 0
    /\ opsStarted = 0

\* SpecNew: NewClient is called with some list of options.
InitNew ==
    /\ ncOpts \in OptionLists
    /\ ncIdx = 1
    /\ ncPc = "loop"
    /\ ncErr = Nil
    /\ client = ZeroClient
    /\ NoCalls
    /\ NoValues

NextNew == NewClientOption \/ NewClientReturn

SpecNew == InitNew /\ [][NextNew]_vars

\* Spec, SpecSeq: a client NewClient returned, and no operation called yet.
Init ==
    /\ \E opts \in SessionOptionLists :
          /\ NewClient(opts).err = Nil
          /\ client = NewClient(opts).c
    /\ ncOpts = <<>>
    /\ ncIdx = 1
    /\ ncPc = "done"
    /\ ncErr = Nil
    /\ NoCalls
    /\ NoValues

Step(p, serial) ==
    \/ List(p, serial)
    \/ Get(p, serial)
    \/ Create(p, serial)
    \/ Update(p, serial)
    \/ Delete(p, serial)
    \/ ReadResponse(p)
    \/ CrumbResponse(p)
    \/ CheckCrumbs(p)
    \/ AttachCrumbs(p)
    \/ ClearCrumbs(p)
    \/ PostResponse(p)

\* Spec: the caller goroutines call the operations of the Nodes service with
\* no coordination.
Next == \E p \in Procs : Step(p, FALSE)

Spec == Init /\ [][Next]_vars

\* SpecSeq: the callers keep the design's rule of at most one operation on
\* the crumb state in flight; setCrumbs and newFormRequest are also called on
\* their own.
NextSeq == \E p \in Procs : Step(p, TRUE) \/ SetCrumbs(p) \/ NewFormRequest(p)

SpecSeq == Init /\ [][NextSeq]_vars

\* SpecCancel: one caller runs the operations one after another and may
\* cancel the context of the one under way.  The goroutine keeps running, and
\* a network call whose context is cancelled returns.
NextCancel == Step(Owner, TRUE) \/ SetCrumbs(Owner) \/ Cancel(Owner)

\* The steps the scheduler and the transport owe the caller: the steps of the
\* goroutine itself, and the return of a call whose context is cancelled.
Aborted(p) ==
    /\ proc[p].ctx = "cancelled"
    /\ ReadResponse(p) \/ CrumbResponse(p) \/ PostResponse(p)

Running(p) == CheckCrumbs(p) \/ AttachCrumbs(p) \/ ClearCrumbs(p)

SpecCancel ==
    /\ Init
    /\ [][NextCancel]_vars
    /\ WF_vars(Aborted(Owner))
    /\ WF_vars(Running(Owner))

\* SpecDefaults: fillInNodeDefaults is called, up to MaxFills times, on a Node
\* the caller made.
NoSession ==
    /\ client = ZeroClient
    /\ ncOpts = <<>>
    /\ ncIdx = 1
    /\ ncPc = "loop"
    /\ ncErr = Nil
    /\ NoCalls

InitDefaults ==
    /\ NoSession
    /\ node \in NodeValues
    /\ nodeGiven = node
    /\ fills = 0
    /\ respBody = Nil
    /\ decoded = Nil

FillInNodeDefaults ==
    /\ fills < MaxFills
    /\ node' = fillInNodeDefaults(node)
    /\ fills' = fills + 1
    /\ UNCHANGED <<nodeGiven, respBody, decoded>>
    /\ UNCHANGED sessionVars

NextDefaults == FillInNodeDefaults

SpecDefaults == InitDefaults /\ [][NextDefaults]_vars

\* The response of a status below 300 whose body is decoded.
OKResponse == [StatusCode |-> 200, cookies |-> Cookies(200)]

InitDecode ==
    /\ NoSession
    /\ node = Nil
    /\ nodeGiven = Nil
    /\ fills = 0
    /\ respBody \in NodeDocs \cup SSHLauncherDocs \cup JSONDocs
    /\ decoded = Nil

Decoding(op, out) ==
    /\ decoded = Nil
    /\ decoded' = [op |-> op, out |-> out]
    /\ UNCHANGED <<node, nodeGiven, fills, respBody>>
    /\ UNCHANGED sessionVars

\* Nodes.Get from the body of the response on.
GetDecode ==
    /\ respBody \in NodeDocs
    /\ Decoding("Get", GetDecoded(OKResponse, respBody))

\* Nodes.List from the body of the response on.
ListDecode ==
    /\ respBody \in JSONDocs
    /\ Decoding("List", ListDecoded(OKResponse, respBody))

\* xml.Unmarshal(inputXML, &launcher) with launcher an SSHLauncher.
UnmarshalSSHLauncher ==
    /\ respBody \in SSHLauncherDocs
    /\ Decoding("SSHLauncher", XMLUnmarshalSSHLauncher(respBody))

NextDecode == GetDecode \/ ListDecode \/ UnmarshalSSHLauncher

SpecDecode == InitDecode /\ [][NextDecode]_vars

(***************************************************************************)
(* Properties.                                                             *)
(***************************************************************************)
ReadOps == {"List", "Get"}

\* The header entries of a request other than its Content-Type.
CrumbHeaders(h) == SelectSeq(h, LAMBDA e : e[1] # "Content-Type")

\* The one header entry a crumb makes (http.Header keeps names in canonical form).
CrumbHeaderOf(cr) == << <<CanonicalMIMEHeaderKey(cr.RequestField), cr.Value>> >>

HasPost(pr) == \E i \in 1..Len(pr.sent) : pr.sent[i].Method = "POST"

IsCrumbGet(r) == r.Method = "GET" /\ r.path = Path(crumbURL, "")

\* The build b attached the crumb stored last and left none held.
AttachedLatest(b) ==
    /\ b.latest # Nil
    /\ CrumbHeaders(b.Header) = CrumbHeaderOf(b.latest)
    /\ b.crumbId = b.latest.id
    /\ b.after = Nil

\* C1 as stated: with the callers serialised, the first mutating-request
\* build after a successful crumb fetch attaches exactly one header, named by
\* the fetched crumbRequestField and carrying the fetched crumb, and leaves
\* the crumb state nil - whether or not the build produces a request.
C1_AnyFirstBuildAttaches ==
    (lastBuild # Nil /\ lastBuild.fetches > 0 /\ lastBuild.prevAny < lastBuild.fetches)
        => (lastBuild.ok /\ AttachedLatest(lastBuild))

\* C1 amended: with the callers serialised, the first mutating-request build
\* after a successful crumb fetch that produces a request attaches exactly one
\* header, named by the fetched crumbRequestField and carrying the fetched
\* crumb, and leaves the crumb state nil; a build that fails attaches nothing
\* and leaves the crumb held.
C1_FirstBuildAttaches ==
    /\ (lastBuild # Nil /\ lastBuild.ok /\ lastBuild.fetches > 0
            /\ lastBuild.prevOk < lastBuild.fetches)
          => AttachedLatest(lastBuild)
    /\ (lastBuild # Nil /\ ~lastBuild.ok /\ lastBuild.fetches > 0
            /\ lastBuild.prevOk < lastBuild.fetches)
          => (lastBuild.after # Nil /\ lastBuild.after = lastBuild.latest)

\* A fetched crumb was attached by the first build after its fetch.
C1_Witness ==
    /\ lastBuild # Nil
    /\ lastBuild.ok
    /\ lastBuild.fetches > 0
    /\ lastBuild.prevOk < lastBuild.fetches
    /\ lastBuild.crumbId = lastBuild.latest.id
    /\ crumbs = Nil

\* C2 as stated: with the callers serialised, a mutating-request build that
\* follows another build with no crumb fetch in between fails or yields a
\* request without a crumb header, and no crumb is attached to two requests.
C2_AnySecondBuildBare ==
    /\ (lastBuild # Nil /\ lastBuild.prevAny = lastBuild.fetches)
          => (~lastBuild.ok
              \/ (lastBuild.crumbId = 0 /\ CrumbHeaders(lastBuild.Header) = <<>>))
    /\ (lastBuild # Nil /\ lastBuild.crumbId # 0)
          => ~lastBuild.reused

\* C2 amended: with the callers serialised, a mutating-request build that
\* follows a build which produced a request, with no crumb fetch in between,
\* fails or yields a request without a crumb header, and no crumb is attached
\* to two requests.
C2_SecondBuildBare ==
    /\ (lastBuild # Nil /\ lastBuild.prevOk = lastBuild.fetches)
          => (~lastBuild.ok
              \/ (lastBuild.crumbId = 0 /\ CrumbHeaders(lastBuild.Header) = <<>>))
    /\ (lastBuild # Nil /\ lastBuild.crumbId # 0)
          => ~lastBuild.reused

\* A second build right after the one that consumed the crumb made a request.
C2_Witness ==
    /\ lastBuild # Nil
    /\ lastBuild.ok
    /\ lastBuild.fetches > 0
    /\ lastBuild.prevOk = lastBuild.fetches
    /\ attached # {}
    /\ lastBuild.crumbId = 0

\* C3: in every mutating operation the crumb GET is sent and answered before
\* the POST is built, and an operation that sent a POST sent the crumb GET
\* first.
C3_FetchThenBuild ==
    \A p \in Procs :
        LET pr == proc[p]
        IN pr.op \in MutatingOps =>
              /\ HasPost(pr) =>
                    /\ Len(pr.sent) = 2
                    /\ IsCrumbGet(pr.sent[1])
                    /\ pr.sent[2].Method = "POST"
                    /\ pr.fetchId # 0
              /\ pr.pc \in {"checkCrumbs", "attach", "clear"} =>
                    /\ pr.fetchId # 0
                    /\ Len(pr.sent) = 1
                    /\ IsCrumbGet(pr.sent[1])
              /\ pr.pc = "crumbWait" => (pr.fetchId = 0 /\ ~HasPost(pr))

\* A mutating operation fetched its crumb, sent its POST and returned no error.
C3_Witness ==
    \E p \in Procs :
        /\ proc[p].op \in MutatingOps
        /\ proc[p].pc = "done"
        /\ HasPost(proc[p])
        /\ proc[p].ret.err = Nil

\* The error the crumb fetch of pr ended with, as far as its outcome tells.
CrumbFetchErrors(pr) ==
    IF pr.sent = <<>> THEN {ErrInvalidRequest}
    ELSE IF pr.got = Nil THEN {ErrTransport}
    ELSE IF pr.got.StatusCode >= 300
         THEN {StatusError(pr.got.StatusCode, StatusLine(pr.got.StatusCode))}
    ELSE {ErrReadBody, ErrJSON}

\* C4: a mutating operation whose crumb fetch failed returns the error of the
\* fetch and sends no POST; the crumb GET is the only request it sent.
C4_FetchErrorAborts ==
    \A p \in Procs :
        LET pr == proc[p]
        IN (pr.op \in MutatingOps /\ pr.pc = "done" /\ pr.ret # Nil /\ pr.fetchId = 0) =>
              /\ pr.ret.err \in CrumbFetchErrors(pr)
              /\ pr.out.err = pr.ret.err
              /\ ~HasPost(pr)
              /\ Len(pr.sent) <= 1
              /\ \A i \in 1..Len(pr.sent) : IsCrumbGet(pr.sent[i])

\* A crumb fetch failed (no response, an error status or a malformed body)
\* after its GET was sent.
C4_Witness ==
    \E p \in Procs :
        /\ proc[p].op \in MutatingOps
        /\ proc[p].pc = "done"
        /\ proc[p].fetchId = 0
        /\ proc[p].ret # Nil
        /\ proc[p].ret.err \in {ErrJSON, ErrTransport,
                                StatusError(404, StatusLine(404))}
        /\ proc[p].sent # <<>>

\* C5: with at most one mutating operation in flight, every POST that is sent
\* carries the crumb of the latest successful fetch: not an earlier one and
\* not none.
C5_PostCarriesLatestCrumb ==
    \A p \in Procs :
        proc[p].pc = "postWait" =>
            LET r == proc[p].sent[Len(proc[p].sent)]
            IN /\ fetched # Nil
               /\ r.Method = "POST"
               /\ r.crumbId = fetchCount
               /\ r.crumbId = fetched.id
               /\ CrumbHeaders(r.Header) = CrumbHeaderOf(fetched)

\* A POST is in flight after an earlier operation fetched a crumb and failed
\* without using it.
C5_Witness ==
    \E p \in Procs :
        /\ proc[p].pc = "postWait"
        /\ fetchCount = 2
        /\ attached = {2}

\* The POST the operation of pr sent.
PostOf(pr) == pr.sent[Len(pr.sent)]

\* C6: with the callers not serialised, a POST carries the crumb its own
\* operation fetched, or one another operation fetched later, or - once
\* another operation has consumed a crumb - none; the last two cases happen.
C6_PostCrumbUnderRace ==
    \A p \in Procs :
        (proc[p].op \in MutatingOps /\ HasPost(proc[p])) =>
            \/ PostOf(proc[p]).crumbId = proc[p].fetchId
            \/ PostOf(proc[p]).crumbId \in (proc[p].fetchId + 1)..fetchCount
            \/ /\ PostOf(proc[p]).crumbId = 0
               /\ CrumbHeaders(PostOf(proc[p]).Header) = <<>>
               /\ attached # {}

\* One operation sent its POST with the crumb fetched for the other, and the
\* other sent its POST with no crumb header.
C6_Witness ==
    \E p, q \in Procs :
        /\ p # q
        /\ proc[p].op \in MutatingOps /\ HasPost(proc[p])
        /\ proc[q].op \in MutatingOps /\ HasPost(proc[q])
        /\ proc[q].fetchId # 0
        /\ proc[p].fetchId # proc[q].fetchId
        /\ PostOf(proc[p]).crumbId = proc[q].fetchId
        /\ PostOf(proc[q]).crumbId = 0
        /\ CrumbHeaders(PostOf(proc[q]).Header) = <<>>

\* A step of a read operation of p: its call or the arrival of its response.
ReadStep(p) == proc'[p] # proc[p] /\ proc'[p].op \in ReadOps

StatusErrorOf(pr) ==
    StatusError(pr.got.StatusCode,
                IF HasPost(pr) THEN StatusText(pr.got.StatusCode)
                ELSE StatusLine(pr.got.StatusCode))

\* C8: get, postForm and post return a response with status >= 300 together
\* with an error carrying the status code and text, and return no error for
\* a status below 300.
C8_StatusClassified ==
    \A p \in Procs :
        LET pr == proc[p]
        IN (pr.pc = "done" /\ pr.got # Nil) =>
              IF pr.got.StatusCode >= 300
              THEN /\ pr.ret.err = StatusErrorOf(pr)
                   /\ pr.ret.err.code = pr.got.StatusCode
                   /\ pr.ret.err.text # ""
                   /\ pr.ret.resp = pr.got
                   /\ pr.out.err = pr.ret.err
                   /\ pr.out.resp = pr.got
              ELSE (pr.op \in ReadOps \/ HasPost(pr)) => pr.ret.err = Nil

\* Get was answered 404 and returned the error and the response.
C8_Witness ==
    \E p \in Procs :
        /\ proc[p].op = "Get"
        /\ proc[p].pc = "done"
        /\ proc[p].got # Nil
        /\ proc[p].got.StatusCode = 404
        /\ proc[p].out.err = StatusError(404, "404 Not Found")
        /\ proc[p].out.resp.StatusCode = 404

\* The response of the request p waits for arrives in this step.
Received(p) ==
    /\ proc[p].pc \in {"getWait", "crumbWait", "postWait"}
    /\ proc'[p].pc # proc[p].pc

BothCredentialOptions(opts) ==
    \E i, j \in 1..Len(opts) : opts[i].opt = "WithPassword" /\ opts[j].opt = "WithToken"

\* C10: NewClient returns an error and no client whenever its options hold
\* both a password option and a token option, in either order.
C10_BothCredentialsRejected ==
    (ncPc = "done" /\ BothCredentialOptions(ncOpts)) => (ncErr # Nil /\ client = Nil)

\* C11: fillInNodeDefaults is idempotent - the Node after the second call is
\* the Node after the first.
C11_FillIdempotent ==
    fills >= 1 => node = fillInNodeDefaults(nodeGiven)

\* fillInNodeDefaults ran twice on a Node it had to change.
C11_Witness ==
    /\ fills = 2
    /\ node # nodeGiven

\* The fields of a Node fillInNodeDefaults has no default for.
PlainFields == {"Name", "Description", "RemoteFS", "Mode", "Labels"}

\* C12: fillInNodeDefaults leaves every launcher, properties, type, executor
\* count and retention strategy that is set as it is, and never changes the
\* name, description, remoteFS, mode or labels.
C12_FillKeepsSetFields ==
    fills >= 1 =>
        /\ \A f \in PlainFields : node[f] = nodeGiven[f]
        /\ nodeGiven.Launcher # Nil => node.Launcher = nodeGiven.Launcher
        /\ nodeGiven.Properties # Nil => node.Properties = nodeGiven.Properties
        /\ nodeGiven.Type # "" => node.Type = nodeGiven.Type
        /\ nodeGiven.NumExecutors # 0 => node.NumExecutors = nodeGiven.NumExecutors
        /\ nodeGiven.RetentionsStrategy # Nil
              => node.RetentionsStrategy = nodeGiven.RetentionsStrategy

\* fillInNodeDefaults ran on a Node with all five fields set to values other
\* than the defaults.
C12_Witness ==
    /\ fills >= 1
    /\ node = nodeGiven
    /\ node.Launcher # Nil /\ node.Launcher # DefaultJNLPLauncher
    /\ node.Properties # Nil /\ node.Properties # DefaultNodeProperties
    /\ node.Type \notin {"", DefaultNodeType}
    /\ node.NumExecutors \notin {0, 1}
    /\ node.RetentionsStrategy # Nil /\ node.RetentionsStrategy # DefaultRetentionsStrategy

\* All five fields with a default are unset in n.
AllUnset(n) ==
    /\ n.Launcher = Nil
    /\ n.Properties = Nil
    /\ n.Type = ""
    /\ n.NumExecutors = 0
    /\ n.RetentionsStrategy = Nil

\* C14: on a Node with launcher, properties, type, executor count and
\* retention strategy unset, fillInNodeDefaults yields one executor, the JNLP
\* launcher of class hudson.slaves.JNLPLauncher, the always-retain strategy,
\* the default properties bag and the default node type.
C14_FillYieldsDefaults ==
    (fills >= 1 /\ AllUnset(nodeGiven)) =>
        /\ node.NumExecutors = 1
        /\ node.Launcher = [type |-> "*JNLPLauncher",
                            StaplerClass |-> "hudson.slaves.JNLPLauncher",
                            WebSocket |-> FALSE,
                            WorkDirSettings |-> [Disabled |-> FALSE, InternalDir |-> "",
                                                 FailIfWorkDirIsMissing |-> FALSE]]
        /\ node.RetentionsStrategy = [StaplerClass |-> "hudson.slaves.RetentionStrategy$Always"]
        /\ node.Properties = [StaplerClassBag |-> "true"]
        /\ node.Type = "hudson.slaves.DumbSlave$DescriptorImpl"

\* fillInNodeDefaults ran on a Node with only its name and plain fields set.
C14_Witness ==
    /\ fills = 1
    /\ AllUnset(nodeGiven)
    /\ node.Name = "test-node"
    /\ node.NumExecutors = 1

\* The Node a POST of Create or Update carries: the json value of the form of
\* Create, the document of Update.
SentNode(r) == IF r.body.kind = "form" THEN r.body.values.json.json ELSE r.body.node

Complete(n) ==
    /\ n.Launcher # Nil
    /\ n.RetentionsStrategy # Nil
    /\ n.Properties # Nil
    /\ n.NumExecutors # 0

\* C13: every Node that Create or Update sent has a launcher, a retention
\* strategy, properties and a non-zero executor count in the serialized body.
\* Update serializes the Node as the caller gave it, so this is violated.
C13_SentNodesComplete ==
    \A p \in Procs :
        (proc[p].op \in {"Create", "Update"} /\ HasPost(proc[p])) =>
            Complete(SentNode(PostOf(proc[p])))

\* C20: an operation whose mutating request cannot be built (Update or Delete
\* of a name that makes the URL malformed) ends by returning an error value.
\* post drops the error of newRequest and sets a header on the nil request, so
\* the operation ends in a panic once the crumb fetch has succeeded.
C20_BuildErrorReturned ==
    \A p \in Procs :
        (/\ proc[p].op \in {"Update", "Delete"}
         /\ ~URLParses(client.baseURL,
                       Path(IF proc[p].op = "Update" THEN NodesGetURL ELSE NodesDeleteURL,
                            proc[p].name))
         /\ proc[p].pc \in {"done", "panic"}) =>
            (proc[p].pc = "done" /\ proc[p].out.err # Nil)

\* The SSH launcher element of the document decoded, and the launcher it was
\* decoded to: on its own, or as the launcher of a Node.
SSHElement ==
    IF respBody.root.name = "launcher" THEN respBody.root ELSE Child(respBody.root, "launcher")

SSHDecoded ==
    IF decoded.op = "SSHLauncher" THEN decoded.out.val ELSE decoded.out.val.Launcher

HasSSHDecoded ==
    /\ decoded # Nil
    /\ decoded.op \in {"SSHLauncher", "Get"}
    /\ decoded.out.err = Nil
    /\ \/ decoded.op = "SSHLauncher"
       \/ /\ decoded.out.val.Launcher # Nil
          /\ decoded.out.val.Launcher.type = "*SSHLauncher"

\* The variant type each known strategy class stands for.
StrategyTypeOf(class) ==
    CASE class = "hudson.plugins.sshslaves.verifiers.NonVerifyingKeyVerificationStrategy" ->
            "*NonVerifyingKeyVerificationStrategy"
      [] class = "hudson.plugins.sshslaves.verifiers.KnownHostsFileKeyVerificationStrategy" ->
            "*KnownHostsFileKeyVerificationStrategy"
      [] class = "hudson.plugins.sshslaves.verifiers.ManuallyProvidedKeyVerificationStrategy" ->
            "*ManuallyProvidedKeyVerificationStrategy"
      [] class = "hudson.plugins.sshslaves.verifiers.ManuallyTrustedKeyVerificationStrategy" ->
            "*ManuallyTrustedKeyVerificationStrategy"
      [] OTHER -> "none"

\* C15: an SSH launcher element whose sshHostKeyVerificationStrategy carries
\* one of the four known classes decodes to a strategy of the matching variant
\* type whose StaplerClass is that class, with the algorithm and key of a
\* manually provided key and the requireInitialManualTrust of a manually
\* trusted one taken from the content of the element.
C15_StrategyVariantDecoded ==
    (HasSSHDecoded /\ Has(SSHElement, "sshHostKeyVerificationStrategy")) =>
        LET el == Child(SSHElement, "sshHostKeyVerificationStrategy")
            v == SSHDecoded.SSHHostKeyVerificationStrategy
        IN StrategyTypeOf(el.class) # "none" =>
              /\ v # Nil
              /\ v.type = StrategyTypeOf(el.class)
              /\ v.StaplerClass = el.class
              /\ v.type = "*ManuallyProvidedKeyVerificationStrategy" =>
                    IF Has(el, "key")
                    THEN /\ v.Key.Algorithm = Child(Child(el, "key"), "algorithm").text
                         /\ v.Key.Key = Child(Child(el, "key"), "key").text
                    ELSE v.Key = [Algorithm |-> "", Key |-> ""]
              /\ v.type = "*ManuallyTrustedKeyVerificationStrategy" =>
                    (v.RequireInitialManualTrust <=>
                        /\ Has(el, "requireInitialManualTrust")
                        /\ Child(el, "requireInitialManualTrust").text = "true")
              /\ v.type \in {"*NonVerifyingKeyVerificationStrategy",
                              "*KnownHostsFileKeyVerificationStrategy"} =>
                    DOMAIN v = {"type", "StaplerClass"}

\* A launcher with a manually provided key was decoded, key material included.
C15_Witness ==
    /\ HasSSHDecoded
    /\ decoded.op = "SSHLauncher"
    /\ SSHDecoded.SSHHostKeyVerificationStrategy # Nil
    /\ SSHDecoded.SSHHostKeyVerificationStrategy.type = "*ManuallyProvidedKeyVerificationStrategy"
    /\ SSHDecoded.SSHHostKeyVerificationStrategy.Key = [Algorithm |-> "ssh-rsa", Key |-> "AAAAB3Nz"]

\* The document decoded has nothing wrong before the polymorphic element: it
\* is complete, of a version the decoder takes, rooted as the target wants,
\* and the numbers of the enclosing element convert.
SoundNodeDoc ==
    /\ respBody.closed
    /\ respBody.version \in {"1.0", "1.1"}
    /\ respBody.root.name = "slave"
    /\ Child(respBody.root, "numExecutors").text = "1"

SoundSSHElement == Has(SSHElement, "port") /\ Child(SSHElement, "port").text = "22"

\* C16: a launcher element, or a host-key verification strategy element, of a
\* class the decoder does not recognise is decoded without error; the launcher
\* (the strategy) is left nil and the fields around it are decoded.
C16_UnknownClassLeftNil ==
    /\ (/\ decoded # Nil
        /\ decoded.op = "Get"
        /\ SoundNodeDoc
        /\ Has(respBody.root, "launcher")
        /\ Child(respBody.root, "launcher").class
              \notin {"hudson.slaves.JNLPLauncher", "hudson.slaves.SSHLauncher"}) =>
            /\ decoded.out.err = Nil
            /\ decoded.out.val # Nil
            /\ decoded.out.val.Launcher = Nil
            /\ decoded.out.val.Name = "test"
            /\ decoded.out.val.NumExecutors = 1
            /\ decoded.out.val.Labels = <<"test">>
    /\ (/\ decoded # Nil
        /\ \/ decoded.op = "SSHLauncher" /\ respBody.closed
           \/ /\ decoded.op = "Get"
              /\ SoundNodeDoc
              /\ Has(respBody.root, "launcher")
              /\ Child(respBody.root, "launcher").class = "hudson.slaves.SSHLauncher"
        /\ SoundSSHElement
        /\ Has(SSHElement, "sshHostKeyVerificationStrategy")
        /\ StrategyTypeOf(Child(SSHElement, "sshHostKeyVerificationStrategy").class) = "none") =>
            /\ decoded.out.err = Nil
            /\ HasSSHDecoded
            /\ SSHDecoded.SSHHostKeyVerificationStrategy = Nil
            /\ SSHDecoded.Host = "ss"
            /\ SSHDecoded.Port = 22
            /\ SSHDecoded.TCPNoDelay

\* A Node came back from a document whose launcher is of an unknown class.
C16_Witness ==
    /\ decoded # Nil
    /\ decoded.op = "Get"
    /\ Has(respBody.root, "launcher")
    /\ Child(respBody.root, "launcher").class = "com.example.OtherLauncher"
    /\ decoded.out.err = Nil
    /\ decoded.out.val.Launcher = Nil
    /\ decoded.out.val.Name = "test"

\* The document fails the first parse of Node.UnmarshalXML.
FirstStageDefect ==
    \/ ~respBody.closed
    \/ respBody.version = "2.0"
    \/ respBody.root.name # "slave"
    \/ Child(respBody.root, "numExecutors").text = "abc"

\* The launcher element l is of a class the decoder re-parses and holds a
\* text that does not convert in that parse.
SecondStageDefect(l) ==
    \/ /\ l.class = "hudson.slaves.JNLPLauncher"
       /\ Has(l, "websocket")
       /\ Child(l, "websocket").text = "maybe"
    \/ /\ l.class = "hudson.slaves.SSHLauncher"
       /\ \/ Has(l, "port") /\ Child(l, "port").text = "abc"
          \/ /\ Has(l, "sshHostKeyVerificationStrategy")
             /\ LET st == Child(l, "sshHostKeyVerificationStrategy")
                IN /\ StrategyTypeOf(st.class) = "*ManuallyTrustedKeyVerificationStrategy"
                   /\ Has(st, "requireInitialManualTrust")
                   /\ Child(st, "requireInitialManualTrust").text = "maybe"

\* The class strings of the document decoded.
ClassStrings ==
    IF Has(respBody.root, "launcher")
    THEN LET l == Child(respBody.root, "launcher")
         IN {l.class} \cup (IF Has(l, "sshHostKeyVerificationStrategy")
                            THEN {Child(l, "sshHostKeyVerificationStrategy").class} ELSE {})
    ELSE {}

GetFailed == decoded # Nil /\ decoded.op = "Get" /\ decoded.out.err # Nil

LauncherTypeOf(class) ==
    CASE class = DefaultJNLPLauncher.StaplerClass -> DefaultJNLPLauncher.type
      [] class = NewSSHLauncher("", 0, Nil).StaplerClass -> NewSSHLauncher("", 0, Nil).type
      [] OTHER -> "none"

\* C18: a Node whose launcher element carries the class DefaultJNLPLauncher or
\* NewSSHLauncher emits decodes to a launcher of that variant whose
\* StaplerClass is that class.  The Node decoder knows another class for the
\* SSH launcher and re-parses the launcher without its class attribute, so
\* this is violated for both variants.
C18_DiscriminatorMirrored ==
    (/\ decoded # Nil
     /\ decoded.op = "Get"
     /\ decoded.out.err = Nil
     /\ Has(respBody.root, "launcher")
     /\ LauncherTypeOf(Child(respBody.root, "launcher").class) # "none") =>
        /\ decoded.out.val.Launcher # Nil
        /\ decoded.out.val.Launcher.type = LauncherTypeOf(Child(respBody.root, "launcher").class)
        /\ decoded.out.val.Launcher.StaplerClass = Child(respBody.root, "launcher").class

\* C19: List returns one Node for each entry of the computer array, in the
\* order of the array, with the displayName as Name and the description as
\* Description and every other field zero; a body that is not well-formed
\* JSON gives an error and no nodes.
C19_ListProjects ==
    (decoded # Nil /\ decoded.op = "List") =>
        IF respBody.complete
        THEN /\ decoded.out.err = Nil
             /\ Len(decoded.out.val) = Len(respBody.computer)
             /\ \A i \in 1..Len(respBody.computer) :
                   decoded.out.val[i] =
                      [Name |-> respBody.computer[i].displayName,
                       Description |-> IF "description" \in DOMAIN respBody.computer[i]
                                       THEN respBody.computer[i].description ELSE "",
                       RemoteFS |-> "", NumExecutors |-> 0, Mode |-> "", Type |-> "",
                       Labels |-> <<>>, RetentionsStrategy |-> Nil, Properties |-> Nil,
                       Launcher |-> Nil]
        ELSE /\ decoded.out.err # Nil
             /\ decoded.out.val = Nil

\* List returned two nodes in the order of the array, one with a description.
C19_Witness ==
    /\ decoded # Nil
    /\ decoded.op = "List"
    /\ decoded.out.err = Nil
    /\ Len(decoded.out.val) = 2
    /\ decoded.out.val[1].Name = "test"
    /\ decoded.out.val[2].Name = "built-in"
    /\ decoded.out.val[2].Description = "the controller"
    /\ respBody.computer[2].numExecutors = 4

\* The goroutine p is called with a new operation in this step.
Called(p) == proc'[p].opNo # proc[p].opNo

\* C21: a call with a nil context - of List or Get (get, newRequest), of
\* setCrumbs, of newFormRequest, or of a mutating operation - returns the
\* error of newRequest in the step of the call: no request is sent, and the
\* crumb state and the cookie store are as before.
C21_NilContextRejected ==
    [][\A p \in Procs :
          (Called(p) /\ proc'[p].ctx = "nil") =>
              /\ proc'[p].pc = "done"
              /\ proc'[p].out.err # Nil
              /\ proc'[p].ret # Nil => proc'[p].ret.err = ErrInvalidRequest
              /\ proc'[p].op \in {"List", "Get", "setCrumbs", "newFormRequest"} =>
                    proc'[p].ret # Nil
              /\ proc'[p].sent = <<>>
              /\ crumbs' = crumbs
              /\ jar' = jar
              /\ fetchCount' = fetchCount]_vars

\* newFormRequest was called with a nil context while a crumb was held, and
\* the crumb is still held.
C21_Witness ==
    /\ proc[Owner].op = "newFormRequest"
    /\ proc[Owner].ctx = "nil"
    /\ proc[Owner].pc = "done"
    /\ proc[Owner].ret.err = ErrInvalidRequest
    /\ crumbs # Nil

\* C22: no operation re-issues a request.  A read operation sends at most one
\* request, the GET of its path; a mutating operation sends at most the crumb
\* GET and then one POST; an operation that returned or stopped sends nothing
\* more, so the number of requests of an operation is bounded by two.
C22_NoRetry ==
    [][\A p \in Procs :
          /\ proc'[p].op \in ReadOps =>
                /\ Len(proc'[p].sent) <= 1
                /\ \A i \in 1..Len(proc'[p].sent) :
                      /\ proc'[p].sent[i].Method = "GET"
                      /\ ~IsCrumbGet(proc'[p].sent[i])
          /\ proc'[p].op \in MutatingOps =>
                /\ Len(proc'[p].sent) <= 2
                /\ Len(proc'[p].sent) >= 1 => IsCrumbGet(proc'[p].sent[1])
                /\ Len(proc'[p].sent) = 2 => proc'[p].sent[2].Method = "POST"
          /\ (~Called(p) /\ proc[p].pc \in {"done", "panic"}) => proc'[p] = proc[p]
          /\ (~Called(p) /\ proc[p].pc \in {"getWait", "postWait"} /\ proc'[p] # proc[p]) =>
                (proc'[p].pc = "done" /\ proc'[p].sent = proc[p].sent)
          /\ (~Called(p) /\ proc[p].pc = "crumbWait" /\ proc'[p].pc # "crumbWait"
                 /\ proc'[p].got # Nil /\ StatusIsError(proc'[p].got.StatusCode)) =>
                (proc'[p].pc = "done" /\ proc'[p].sent = proc[p].sent)]_vars

\* An operation failed at its POST (status 404) after its crumb GET, and has
\* sent these two requests and no more.
C22_Witness ==
    \E p \in Procs :
        /\ proc[p].op = "Update"
        /\ proc[p].pc = "done"
        /\ proc[p].out.err # Nil
        /\ Len(proc[p].sent) = 2
        /\ proc[p].got # Nil
        /\ proc[p].got.StatusCode = 404

\* C23: an operation whose context was cancelled before its network call
\* returned ends by returning a non-nil error, and a crumb fetch aborted this
\* way stores no crumb.
C23_CancelledReturnsError ==
    /\ \A p \in Procs :
          (proc[p].ctx = "cancelled" /\ proc[p].pc # "done")
              ~> (proc[p].ctx = "cancelled" /\ proc[p].pc = "done" /\ proc[p].out.err # Nil)
    /\ [][\A p \in Procs :
            (proc[p].ctx = "cancelled" /\ proc[p].pc = "crumbWait"
               /\ proc'[p].pc # "crumbWait") =>
                /\ proc'[p].pc = "done"
                /\ proc'[p].out.err # Nil
                /\ crumbs' = crumbs
                /\ fetchCount' = fetchCount]_vars

\* An operation was cancelled during its POST and returned the transport's error.
C23_Witness ==
    /\ proc[Owner].ctx = "cancelled"
    /\ proc[Owner].op \in MutatingOps
    /\ proc[Owner].pc = "done"
    /\ Len(proc[Owner].sent) = 2
    /\ proc[Owner].out.err = ErrTransport

\* The positions of the credential options in an option list, and the last
\* credential option of a list that has one.
CredentialOptions(opts) ==
    {i \in 1..Len(opts) : opts[i].opt \in {"WithPassword", "WithToken"}}

LastCredential(opts) ==
    opts[CHOOSE i \in CredentialOptions(opts) : \A j \in CredentialOptions(opts) : j <= i]

\* The requests a client sends: the crumb fetch, the GET of a read operation
\* and the POST of a mutating one, as newRequest builds them.
RequestsOf(c) ==
    {newRequest(c, "background", m[1], m[2], Nil) :
        m \in {<<"GET", Path(crumbURL, "")>>, <<"GET", Path(NodesListURL, "")>>,
               <<"POST", Path(NodesCreateURL, "")>>}}

\* C24: every request of a client constructed with a password or a token
\* carries the Basic Authorization of the configured user name and secret.
\* NewClient installs the transport only for a non-empty secret, so a client
\* given an empty password or token sends its requests without the header.
C24_RequestsAuthenticated ==
    (ncPc = "done" /\ ncErr = Nil /\ CredentialOptions(ncOpts) # {}) =>
        \A r \in RequestsOf(client) :
            r.err = Nil =>
                OnWire(client, r.req).Authorization =
                    [Username |-> LastCredential(ncOpts).a,
                     Password |-> LastCredential(ncOpts).b]

\* The mutating operation of p has returned after its crumb fetch succeeded.
ReturnedAfterFetch(p) ==
    /\ proc[p].op \in MutatingOps
    /\ proc[p].pc = "done"
    /\ proc[p].fetchId # 0

FetchReturns(p) == proc[p].pc = "crumbWait" /\ proc'[p].pc # "crumbWait"

\* The errors with which a crumb fetch that was sent can fail.
FetchErrors ==
    {ErrTransport, ErrReadBody, ErrJSON} \cup
        {StatusError(st, StatusLine(st)) : st \in {code \in Statuses : code >= 300}}

\* C26: a crumb fetch that fails - transport error, status >= 300, body read
\* error or malformed JSON - leaves the crumb state exactly as it was before
\* the fetch returned, and the caller gets that error; the crumb is replaced
\* only in a step where a fetch and its decode both succeed, and then by the
\* crumb just decoded.
C26_FailedFetchKeepsCrumb ==
    [][/\ \A p \in Procs :
              FetchReturns(p) =>
                  IF proc'[p].fetchId = 0
                  THEN /\ crumbs' = crumbs
                       /\ fetchCount' = fetchCount
                       /\ proc'[p].pc = "done"
                       /\ proc'[p].ret.err \in FetchErrors
                  ELSE /\ crumbs' = fetched'
                       /\ crumbs'.id = proc'[p].fetchId
                       /\ proc'[p].got # Nil
                       /\ ~StatusIsError(proc'[p].got.StatusCode)
       /\ (crumbs' # crumbs /\ crumbs' # Nil) =>
              \E p \in Procs : FetchReturns(p) /\ proc'[p].fetchId # 0]_vars

\* The second call of the owner failed to decode the crumb document, and the
\* crumb an earlier call stored is still held.
C26_Witness ==
    /\ proc[Owner].opNo = 2
    /\ proc[Owner].pc = "done"
    /\ proc[Owner].op \in MutatingOps \cup {"setCrumbs"}
    /\ proc[Owner].ret # Nil
    /\ proc[Owner].ret.err = ErrJSON
    /\ proc[Owner].fetchId = 0
    /\ crumbs # Nil

\* The option list applies opt1 and later opt2.
AppliedInOrder(opts, opt1, opt2) ==
    \E i, j \in 1..Len(opts) : i < j /\ opts[i].opt = opt1 /\ opts[j].opt = opt2

\* The client records both a password and an API token.
BothRecorded(c) == c.password # "" /\ c.apiToken # ""

\* C27: for every user name, password and token, empty strings included, a
\* NewClient call whose options hold a password option and a token option, in
\* either order, returns an error, and a client that was constructed never
\* records both a password and an API token.  The options test the other
\* credential against the empty string, so an empty password or token set
\* first does not make the second option fail.
C27_CredentialsExclusive ==
    ncPc = "done" =>
        /\ AppliedInOrder(ncOpts, "WithPassword", "WithToken") => ncErr # Nil
        /\ AppliedInOrder(ncOpts, "WithToken", "WithPassword") => ncErr # Nil
        /\ ncErr = Nil => ~BothRecorded(client)

\* The transport that puts the requests of an http.Client on the wire.  A nil
\* Transport stands for http.DefaultTransport, and BasicAuthTransport.RoundTrip
\* sets the header and hands the request to http.DefaultTransport.
RoundTrip(transport) ==
    IF transport = Nil \/ transport.kind = "BasicAuthTransport"
    THEN [kind |-> "http.DefaultTransport"]
    ELSE transport

\* The option list applies WithClient.
CallerClientGiven(opts) == \E i \in 1..Len(opts) : opts[i].opt = "WithClient"

\* C29: a client constructed with WithClient and a credential option sends
\* its requests through the transport the caller configured, and the
\* http.Client the caller handed over (the one the client points to) is as the
\* caller configured it.  NewClient assigns the auth transport to the
\* Transport field of that very http.Client, and the auth transport sends
\* through http.DefaultTransport.
C29_CallerClientPreserved ==
    (/\ ncPc = "done"
     /\ ncErr = Nil
     /\ CallerClientGiven(ncOpts)
     /\ CredentialOptions(ncOpts) # {}) =>
        /\ RoundTrip(client.httpClient.Transport) = CallerHTTPClient.Transport
        /\ client.httpClient = CallerHTTPClient

\* The Node the caller of p's operation points to is as it was handed over.
NodeAsGiven(p) == proc[p].node \in SessionNodes(proc[p].name)

PostURLOf(op) == IF op = "Update" THEN NodesGetURL ELSE NodesDeleteURL

\* The POST of Update or Delete goes to the path of the node's name and
\* carries the crumb its own operation fetched.
PostToNamedPath(pr) ==
    /\ PostOf(pr).path = Path(PostURLOf(pr.op), pr.name)
    /\ PostOf(pr).crumbId = pr.fetchId
    /\ CrumbHeaders(PostOf(pr).Header) = CrumbHeaderOf(fetched)

\* C30: with the mutating operations serialised, Update and Delete post to
\* /computer/{name}/config.xml and /computer/{name}/doDelete with the crumb
\* header attached; an Update that succeeds returns the Node it was given,
\* unmodified, and an Update that fails in any way returns a nil Node with
\* the error.  For a name that makes the URL malformed post goes on with a
\* nil request, so that Update ends in a panic and returns nothing.
C30_UpdateDeletePost ==
    \A p \in Procs :
        /\ (proc[p].op \in {"Update", "Delete"} /\ HasPost(proc[p])) =>
               PostToNamedPath(proc[p])
        /\ (proc[p].op = "Update" /\ proc[p].pc \in {"done", "panic"}) =>
               /\ proc[p].pc = "done"
               /\ IF proc[p].out.err # Nil
                  THEN proc[p].out.val = Nil
                  ELSE /\ proc[p].out.val = TheNode
                       /\ NodeAsGiven(p)
                       /\ HasPost(proc[p])

====
